---- MODULE Spec2Model ----
(***************************************************************************)
(* A model of the control-network core of isistools:                       *)
(*   io/controlnet.py      _classify_point_status, load_cnet, cnet_summary *)
(*   io/cache.py           get_cache                                       *)
(*   plotting/cnet_overlay.py  _has_ground_coords, _lonlat_from_campt,     *)
(*                             cnet_to_geodataframe                        *)
(*   apps/tiepoint_review.py   _find_image_pairs                           *)
(*                                                                         *)
(* Tables (pandas DataFrames) are records [cols, rows]: cols is the set of *)
(* column names, rows a sequence of functions from cols to values.  A row  *)
(* handed to a per-row function (a pandas Series) is such a function; a    *)
(* field is absent when its name is not in the row's DOMAIN.               *)
(*                                                                         *)
(* Floating-point residuals are integers in units of 1e-10 pixel, so that  *)
(* the classifier's threshold 1e-10 is the integer Eps; NaN is a value     *)
(* outside the numeric range on which every comparison is false.           *)
(* Serial numbers, clock identifiers and point identifiers that the code   *)
(* splits or compares are sequences of characters.                         *)
(***************************************************************************)
EXTENDS Integers, Sequences, FiniteSets, TLC

VARIABLES
    row,        \* SpecClassify: the measurement handed to the classifier
    status,     \* SpecClassify: what the classifier returned ("pending" before)
    file,       \* SpecLoad: the control network file on disk: exists, mtime, content
    cache,      \* SpecLoad: the disk cache, a function from the keys stored to tables
    call,       \* SpecLoad: per caller, the position and locals of its load_cnet call
    log,        \* SpecLoad: the load_cnet calls that have ended, in the order they ended
    limits,     \* SpecLoad: how many calls and file writes this run explores
    geoIn,      \* SpecGeo: the arguments of cnet_to_geodataframe: cnet_df, cube_paths
    geoOut,     \* SpecGeo: what the call did: its outcome and the point table
    campt,      \* SpecCampt: the position and locals of a _lonlat_from_campt call
    sumIn,      \* SpecSummary: the table handed to cnet_summary
    sumOut,     \* SpecSummary: what cnet_summary did
    pairsIn,    \* SpecPairs: the table handed to _find_image_pairs
    pairsOut,   \* SpecPairs: what _find_image_pairs returned
    review,     \* SpecReview: the attributes and panes of a MosaicReview
    viewer      \* SpecFootprints: a footprint viewer, its arguments and what it showed

clsVars == <<row, status>>
loadVars == <<file, cache, call, log, limits>>
geoVars == <<geoIn, geoOut>>
camptVars == <<campt>>
sumVars == <<sumIn, sumOut>>
pairVars == <<pairsIn, pairsOut>>
appVars == <<review, viewer>>
vars ==
    <<row, status, file, cache, call, log, limits, geoIn, geoOut, campt,
      sumIn, sumOut, pairsIn, pairsOut, review, viewer>>

(***************************************************************************)
(* Floating point.                                                         *)
(***************************************************************************)
NaN == -999

IsNaN(x) == x = NaN

\* the two infinite floats: what float("inf") parses to and what a stored
\* coordinate can hold
PosInf == 1000

NegInf == 0 - PosInf

\* abs(x); abs(nan) is nan
FAbs(x) == IF IsNaN(x) THEN NaN ELSE IF x < 0 THEN 0 - x ELSE x

\* x > y on floats: false as soon as one side is nan
FGt(x, y) == ~IsNaN(x) /\ ~IsNaN(y) /\ x > y

\* x >= y on floats: false as soon as one side is nan
FGe(x, y) == ~IsNaN(x) /\ ~IsNaN(y) /\ x >= y

(***************************************************************************)
(* io/controlnet.py: _classify_point_status                                *)
(***************************************************************************)
Statuses == {"ignored", "registered", "unregistered"}

\* the threshold 1e-10 of line 38, in units of 1e-10
Eps == 1

\* plio measure types: 0=Candidate, 1=Manual, 2=RegisteredPixel, 3=RegisteredSubPixel
RegisteredPixel == 2

\* row.get(key, default) of a pandas Series
Get(r, key, default) == IF key \in DOMAIN r THEN r[key] ELSE default

\* a slip that tests the measure type before the ignore flags
ClassifyValues_TypeFirst(pointIgnore, measureIgnore, measure_type, res_s, res_l) ==
    IF FGe(measure_type, RegisteredPixel) THEN "registered"
    ELSE IF pointIgnore \/ measureIgnore THEN "ignored"
    ELSE IF FGt(FAbs(res_s), Eps) \/ FGt(FAbs(res_l), Eps) THEN "registered"
    ELSE "unregistered"

\* lines 26-41 on the five values the function reads
ClassifyValues(pointIgnore, measureIgnore, measure_type, res_s, res_l) ==
    IF pointIgnore \/ measureIgnore THEN "ignored"
    ELSE IF FGe(measure_type, RegisteredPixel) THEN "registered"
    ELSE IF FGt(FAbs(res_s), Eps) \/ FGt(FAbs(res_l), Eps) THEN "registered"
    ELSE "unregistered"

\* a slip that indexes row["measureType"] and the residuals instead of row.get
_classify_point_status_Index(r) ==
    IF {"measureType", "residualSample", "residualLine"} \subseteq DOMAIN r
    THEN ClassifyValues(Get(r, "pointIgnore", FALSE), Get(r, "measureIgnore", FALSE),
                        r["measureType"], r["residualSample"], r["residualLine"])
    ELSE "KeyError"

_classify_point_status(r) ==
    ClassifyValues(Get(r, "pointIgnore", FALSE),
                   Get(r, "measureIgnore", FALSE),
                   Get(r, "measureType", 0),
                   Get(r, "residualSample", 0),
                   Get(r, "residualLine", 0))

(***************************************************************************)
(* Tables.                                                                 *)
(***************************************************************************)
Table(cols, rows) == [cols |-> cols, rows |-> rows]

NRows(t) == Len(t.rows)

\* df.get(c, pd.Series(default, index=df.index)): column c as a sequence
ColumnOr(t, c, default) ==
    [i \in 1 .. NRows(t) |-> IF c \in t.cols THEN t.rows[i][c] ELSE default]

\* df[c] = values
WithColumn(t, c, values) ==
    Table(t.cols \cup {c},
          [i \in 1 .. NRows(t) |->
              [k \in t.cols \cup {c} |-> IF k = c THEN values[i] ELSE t.rows[i][k]]])

\* df[[c for c in keep if c in df.columns]]
KeepColumns(t, keep) ==
    Table(t.cols \cap keep,
          [i \in 1 .. NRows(t) |-> [k \in t.cols \cap keep |-> t.rows[i][k]]])

\* Series.fillna(v) on one value
FillNa(x, v) == IF IsNaN(x) THEN v ELSE x

\* sqrt(n) rounded to the nearest representable value (here: integer)
RoundSqrt(n) ==
    LET f == CHOOSE r \in 0 .. n : r * r <= n /\ n < (r + 1) * (r + 1)
    IN  IF n - f * f > f THEN f + 1 ELSE f

\* np.hypot(a, b); nan when an argument is nan
Hypot(a, b) == IF IsNaN(a) \/ IsNaN(b) THEN NaN ELSE RoundSqrt(a * a + b * b)

(***************************************************************************)
(* io/controlnet.py: load_cnet, lines 82-109: the table built on a miss.   *)
(***************************************************************************)
\* a slip that leaves the plio names in place
NoRename(c) == c

\* lines 84-86: the new name of a plio column
PlioToIsistools(c) ==
    CASE c = "id" -> "pointId"
      [] c = "sampleResidual" -> "residualSample"
      [] c = "lineResidual" -> "residualLine"
      [] OTHER -> c

\* lines 83-87: df.rename(columns={...})
RenameColumns(t) ==
    Table({ PlioToIsistools(c) : c \in t.cols },
          [i \in 1 .. NRows(t) |->
              [c \in { PlioToIsistools(k) : k \in t.cols } |->
                  t.rows[i][CHOOSE k \in t.cols : PlioToIsistools(k) = c]]])

\* lines 102-108
_keep ==
    {"pointId", "serialnumber", "sample", "line",
     "residualSample", "residualLine", "residual_magnitude",
     "measureType", "pointType", "pointIgnore", "measureIgnore", "status",
     "adjustedX", "adjustedY", "adjustedLon", "adjustedLat",
     "aprioriX", "aprioriY", "aprioriLon", "aprioriLat"}

\* lines 90-95
ResidualMagnitude(t) ==
    LET res_s == ColumnOr(t, "residualSample", 0)
        res_l == ColumnOr(t, "residualLine", 0)
    IN  [i \in 1 .. NRows(t) |-> Hypot(FillNa(res_s[i], 0), FillNa(res_l[i], 0))]

\* line 98: df.apply(_classify_point_status, axis=1)
ApplyClassifier(t) == [i \in 1 .. NRows(t) |-> _classify_point_status(t.rows[i])]

\* lines 83-109 on the table the reader returned
BuildTable(raw) ==
    LET renamed == RenameColumns(raw)
        withMag == WithColumn(renamed, "residual_magnitude", ResidualMagnitude(renamed))
        withStatus == WithColumn(withMag, "status", ApplyClassifier(withMag))
    IN  KeepColumns(withStatus, _keep)

(***************************************************************************)
(* plotting/cnet_overlay.py: _has_ground_coords, _lonlat_from_campt,       *)
(* cnet_to_geodataframe.                                                   *)
(***************************************************************************)
LonCandidates == <<"adjustedX", "adjustedLon", "aprioriX", "aprioriLon">>

LatCandidates == <<"adjustedY", "adjustedLat", "aprioriY", "aprioriLat">>

NoColumn == "<None>"

Range(f) == { f[i] : i \in DOMAIN f }

\* lines 154-159: a present longitude column with a value != 0 (nan != 0 holds)
_has_ground_coords(t) ==
    \E col \in Range(LonCandidates) :
        col \in t.cols /\ \E i \in 1 .. NRows(t) : t.rows[i][col] # 0

\* lines 288-291 and 292-295: the first candidate that is a column, or None
FirstPresent(candidates, cols) ==
    IF \E k \in DOMAIN candidates : candidates[k] \in cols
    THEN candidates[CHOOSE k \in DOMAIN candidates :
                        /\ candidates[k] \in cols
                        /\ \A l \in DOMAIN candidates :
                              candidates[l] \in cols => k <= l]
    ELSE NoColumn

\* df[col].unique(): the values of a column in order of first appearance
RECURSIVE UniqueFrom(_, _, _)
UniqueFrom(t, col, i) ==
    IF i = 0 THEN <<>>
    ELSE LET before == UniqueFrom(t, col, i - 1)
         IN  IF t.rows[i][col] \in Range(before) THEN before
             ELSE Append(before, t.rows[i][col])

Unique(t, col) == UniqueFrom(t, col, NRows(t))

(***************************************************************************)
(* Strings are sequences of characters.                                    *)
(***************************************************************************)
\* sn.rsplit("/", 1)[-1]: what follows the last "/", the whole string if none
RsplitLast(sn) ==
    IF \E i \in DOMAIN sn : sn[i] = "/"
    THEN SubSeq(sn, (CHOOSE i \in DOMAIN sn :
                       sn[i] = "/" /\ \A j \in DOMAIN sn : sn[j] = "/" => j <= i) + 1,
                Len(sn))
    ELSE sn

\* a cube whose label gave no clock identifier
NoClock == <<>>

\* io/cubes.py build_serial_lookup, from the specification (section 4.5):
\* {clockId: path} over the images whose label yields a clock identifier;
\* labels[p] is what the label of image p yields
build_serial_lookup(paths, labels) ==
    LET clocks == { labels[paths[k]] : k \in DOMAIN paths } \ {NoClock}
    IN  [clock \in clocks |->
            paths[CHOOSE k \in DOMAIN paths :
                    /\ labels[paths[k]] = clock
                    /\ \A j \in DOMAIN paths : labels[paths[j]] = clock => j <= k]]

(***************************************************************************)
(* plotting/cnet_overlay.py: _lonlat_from_campt.  The loop body is one     *)
(* operator on the locals of the call; what the file system and campt do   *)
(* for an image is its fate:                                               *)
(*   tempfile_fails      NamedTemporaryFile raises (line 209)              *)
(*   write_fails         coord_f.write raises (line 214)                   *)
(*   campt_fails         isis.campt raises and leaves no output (217)      *)
(*   campt_fails_output  isis.campt raises and leaves an output file       *)
(*   parse_fails         open or float raises (lines 228-234)              *)
(*   short_output        campt returns a row less than was submitted       *)
(*   long_output         campt returns a row more than was submitted       *)
(*   ok                  campt returns one row per submitted row           *)
(***************************************************************************)
Fates ==
    {"tempfile_fails", "write_fails", "campt_fails", "campt_fails_output",
     "parse_fails", "short_output", "long_output", "ok"}

\* a local variable that was never assigned
Unbound == "<unbound>"

\* the longitude and latitude campt gives for a (sample, line)
CamptLon(sample, line) == 100 + sample

CamptLat(sample, line) == 10 + line

\* df.loc[mask, ...]: the rows of a serial number, as indices in table order
MaskRows(t, sn) ==
    LET mask == { i \in 1 .. NRows(t) : t.rows[i]["serialnumber"] = sn }
    IN  [k \in 1 .. Cardinality(mask) |->
            CHOOSE i \in mask : Cardinality({ j \in mask : j < i }) = k - 1]

\* lines 213-214: the coordinate list written for the rows
CoordList(t, rows) ==
    [k \in DOMAIN rows |-> <<t.rows[rows[k]]["sample"], t.rows[rows[k]]["line"]>>]

\* lines 217-234: the rows parsed from the output campt wrote for the list
CamptOutput(coordlist, fate) ==
    LET full == [k \in DOMAIN coordlist |->
                    [lon |-> CamptLon(coordlist[k][1], coordlist[k][2]),
                     lat |-> CamptLat(coordlist[k][1], coordlist[k][2])]]
    IN  CASE fate = "short_output" -> SubSeq(full, 1, Len(full) - 1)
          [] fate = "long_output" -> Append(full, full[Len(full)])
          [] OTHER -> full

\* a slip that hands the values out from the last row of the mask to the first
AssignRows_Reversed(t, rows, values) ==
    Table(t.cols,
          [i \in 1 .. NRows(t) |->
              IF \E k \in DOMAIN rows : rows[k] = i
              THEN LET k == CHOOSE k \in DOMAIN rows : rows[k] = i
                   IN  [t.rows[i] EXCEPT !["campt_lon"] = values[Len(rows) + 1 - k].lon,
                                         !["campt_lat"] = values[Len(rows) + 1 - k].lat]
              ELSE t.rows[i]])

\* lines 237-238: df.loc[mask, "campt_lon"] = lons, df.loc[mask, "campt_lat"] = lats
AssignRows(t, rows, values) ==
    Table(t.cols,
          [i \in 1 .. NRows(t) |->
              IF \E k \in DOMAIN rows : rows[k] = i
              THEN LET k == CHOOSE k \in DOMAIN rows : rows[k] = i
                   IN  [t.rows[i] EXCEPT !["campt_lon"] = values[k].lon,
                                         !["campt_lat"] = values[k].lat]
              ELSE t.rows[i]])

\* a slip that leaves out the copy of line 193: df is the caller's table, and
\* the two columns are added to it
CamptStart_NoCopy(t) ==
    [df |-> Table(t.cols \cup {"campt_lon", "campt_lat"},
                  [i \in 1 .. NRows(t) |->
                      [c \in t.cols \cup {"campt_lon", "campt_lat"} |->
                          IF c \in {"campt_lon", "campt_lat"} THEN NaN
                          ELSE t.rows[i][c]]]),
     cnet_df |-> Table(t.cols \cup {"campt_lon", "campt_lat"},
                  [i \in 1 .. NRows(t) |->
                      [c \in t.cols \cup {"campt_lon", "campt_lat"} |->
                          IF c \in {"campt_lon", "campt_lat"} THEN NaN
                          ELSE t.rows[i][c]]]),
     n_success |-> 0, coord_path |-> Unbound, out_path |-> Unbound,
     files |-> {}, created |-> {}, attempted |-> <<>>, invoked |-> <<>>,
     raised |-> "none"]

\* lines 193-197: the locals before the loop.  df is a copy of the caller's
\* table with the two columns added; cnet_df is the caller's table, which no
\* statement of the function assigns to.  files are the temporary files on
\* disk; created (every temporary file the call made), attempted (the serial
\* numbers whose try block was entered) and invoked (the serial numbers for
\* which isis.campt was called, in the order of the calls) record the history
\* of the call.
CamptStart(t) ==
    [df |-> Table(t.cols \cup {"campt_lon", "campt_lat"},
                  [i \in 1 .. NRows(t) |->
                      [c \in t.cols \cup {"campt_lon", "campt_lat"} |->
                          IF c \in {"campt_lon", "campt_lat"} THEN NaN
                          ELSE t.rows[i][c]]]),
     cnet_df |-> t,
     n_success |-> 0, coord_path |-> Unbound, out_path |-> Unbound,
     files |-> {}, created |-> {}, attempted |-> <<>>, invoked |-> <<>>,
     raised |-> "none"]

\* lines 208-239: the try block for the k-th serial number.  The coordinate
\* file gets the name NamedTemporaryFile picks, the output file that name with
\* ".out.csv" appended.
TryBlock(c, k, sn, fate) ==
    LET rows == MaskRows(c.df, sn)
        coord == <<"coord", k>>
        out == <<"out", k>>
        made == fate # "tempfile_fails"
        written == made /\ fate # "write_fails"
        ran == written /\ fate # "campt_fails"
        parsed == fate \in {"short_output", "long_output", "ok"}
        values == CamptOutput(CoordList(c.df, rows), fate)
        accepted == parsed /\ Len(values) = Len(rows)
        new == (IF made THEN {coord} ELSE {}) \cup (IF ran THEN {out} ELSE {})
    IN  [c EXCEPT !.coord_path = IF made THEN coord ELSE @,
                  !.out_path = IF written THEN out ELSE @,
                  !.files = @ \cup new,
                  !.created = @ \cup new,
                  !.df = IF accepted THEN AssignRows(@, rows, values) ELSE @,
                  !.n_success = IF accepted THEN @ + 1 ELSE @,
                  !.attempted = Append(@, sn),
                  !.invoked = IF written THEN Append(@, sn) ELSE @]

\* lines 243-248: building the list [coord_path, out_path] reads both names,
\* and reading a name that was never assigned raises UnboundLocalError out of
\* the finally block; os.unlink of a file that is gone is passed over
FinallyBlock(c) ==
    IF c.coord_path = Unbound \/ c.out_path = Unbound
    THEN [c EXCEPT !.raised = "UnboundLocalError"]
    ELSE [c EXCEPT !.files = @ \ {c.coord_path, c.out_path}]

\* lines 199-248 for the k-th serial number (measures is never empty for a
\* serial number taken from the table)
CamptIteration(c, k, sn, clock_lookup, fate) ==
    IF RsplitLast(sn) \notin DOMAIN clock_lookup THEN c
    ELSE FinallyBlock(TryBlock(c, k, sn, fate))

\* lines 250-253
CamptEnd(c) ==
    IF c.raised = "none" /\ c.n_success = 0
    THEN [c EXCEPT !.raised = "RuntimeError"]
    ELSE c

\* lines 198-248: the loop from the k-th serial number on; an error that
\* leaves the loop body ends it
RECURSIVE CamptLoop(_, _, _, _, _)
CamptLoop(c, sns, k, clock_lookup, tool) ==
    IF k > Len(sns) \/ c.raised # "none" THEN c
    ELSE CamptLoop(CamptIteration(c, k, sns[k], clock_lookup, tool[sns[k]]),
                   sns, k + 1, clock_lookup, tool)

\* lines 162-253.  env is what the call meets outside the program: the clock
\* identifier in the label of each cube (labels) and the fate of each serial
\* number (tool).  The result is the locals at the end; raised names the error
\* that left the call, or "none" when df was returned.
_lonlat_from_campt(t, cube_paths, env) ==
    CamptEnd(CamptLoop(CamptStart(t), Unique(t, "serialnumber"), 1,
                       build_serial_lookup(cube_paths.paths, env.labels), env.tool))

\* the rows of a point, as indices in table order
GroupRows(t, point_id) == { i \in 1 .. NRows(t) : t.rows[i]["pointId"] = point_id }

RECURSIVE SumOver(_, _, _)
SumOver(t, col, S) ==
    IF S = {} THEN 0
    ELSE LET i == CHOOSE x \in S : TRUE
         IN  t.rows[i][col] + SumOver(t, col, S \ {i})

\* group[col].mean(): the mean over the rows with a value, as the fraction
\* sum/n.  With no such row it is nan, here 0/0; an infinite value makes the
\* mean infinite, here 1/0 and -1/0, and inf + (-inf) is nan.
Mean(t, col, S) ==
    LET valued == { i \in S : ~IsNaN(t.rows[i][col]) }
        pos == \E i \in valued : t.rows[i][col] = PosInf
        neg == \E i \in valued : t.rows[i][col] = NegInf
    IN  IF valued = {} \/ (pos /\ neg) THEN [sum |-> 0, n |-> 0]
        ELSE IF pos THEN [sum |-> 1, n |-> 0]
        ELSE IF neg THEN [sum |-> 0 - 1, n |-> 0]
        ELSE [sum |-> SumOver(t, col, valued), n |-> Cardinality(valued)]

\* np.isnan on a mean: true of nan only, not of an infinite mean
IsNaNMean(m) == m.n = 0 /\ m.sum = 0

\* a slip that calls a point ignored as soon as one measure is
PointStatus_AnyIgnored(statuses) ==
    IF "ignored" \in statuses THEN "ignored"
    ELSE IF "registered" \in statuses THEN "registered"
    ELSE "unregistered"

\* lines 315-321 on group["status"].unique()
PointStatus(statuses) ==
    IF "ignored" \in statuses /\ Cardinality(statuses) = 1 THEN "ignored"
    ELSE IF "registered" \in statuses THEN "registered"
    ELSE "unregistered"

\* the order in which groupby("pointId") yields the groups (sorted keys)
SortedPointIds == <<"p1", "p2">>

\* a slip that counts only the measures that have coordinates
PointRecords_CountValued(t, point_id, lon_col, lat_col) ==
    LET group == GroupRows(t, point_id)
        lon == Mean(t, lon_col, group)
        lat == Mean(t, lat_col, group)
        first == CHOOSE i \in group : \A j \in group : i <= j
    IN  IF group = {} \/ IsNaNMean(lon) \/ IsNaNMean(lat) THEN <<>>
        ELSE << [pointId |-> point_id,
                 lon |-> lon,
                 lat |-> lat,
                 status |-> PointStatus({ t.rows[i]["status"] : i \in group }),
                 n_measures |-> Cardinality({ i \in group : ~IsNaN(t.rows[i][lon_col]) }),
                 residual_magnitude |-> Mean(t, "residual_magnitude", group),
                 pointType |-> IF "pointType" \in t.cols
                               THEN t.rows[first]["pointType"] ELSE "Unknown"] >>

\* lines 307-330 for one group: the record, or nothing when a mean is nan
PointRecords(t, point_id, lon_col, lat_col) ==
    LET group == GroupRows(t, point_id)
        lon == Mean(t, lon_col, group)
        lat == Mean(t, lat_col, group)
        first == CHOOSE i \in group : \A j \in group : i <= j
    IN  IF group = {} \/ IsNaNMean(lon) \/ IsNaNMean(lat) THEN <<>>
        ELSE << [pointId |-> point_id,
                 lon |-> lon,
                 lat |-> lat,
                 status |-> PointStatus({ t.rows[i]["status"] : i \in group }),
                 n_measures |-> Cardinality(group),
                 residual_magnitude |-> Mean(t, "residual_magnitude", group),
                 pointType |-> IF "pointType" \in t.cols
                               THEN t.rows[first]["pointType"] ELSE "Unknown"] >>

RECURSIVE Records(_, _, _, _)
Records(t, lon_col, lat_col, k) ==
    IF k = 0 THEN <<>>
    ELSE Records(t, lon_col, lat_col, k - 1)
            \o PointRecords(t, SortedPointIds[k], lon_col, lat_col)

\* what a call leaves outside its result: the table the caller passed
\* (cnet_df) and the campt invocations made (invoked); env is the environment
\* the call met, kept for the properties
Trace(argument, invoked, env) ==
    [cnet_df |-> argument, invoked |-> invoked, env |-> env]

\* lines 303-340: the point table built from t, the table the local name
\* cnet_df is bound to by now
Aggregate(t, lon_col, lat_col, trace) ==
    [outcome |-> "returned",
     points |-> Records(t, lon_col, lat_col, Len(SortedPointIds)),
     lon_col |-> lon_col, lat_col |-> lat_col, columns |-> {}, table |-> t,
     cnet_df |-> trace.cnet_df, invoked |-> trace.invoked, env |-> trace.env]

Raised(error, t, trace) ==
    [outcome |-> error, points |-> <<>>, lon_col |-> NoColumn, lat_col |-> NoColumn,
     columns |-> t.cols, table |-> Table({}, <<>>),
     cnet_df |-> trace.cnet_df, invoked |-> trace.invoked, env |-> trace.env]

\* lines 280-340
cnet_to_geodataframe(cnet_df, cube_paths, env) ==
    LET needs_conversion == ~_has_ground_coords(cnet_df) /\ cube_paths.given
    IN  IF needs_conversion
        THEN LET converted == _lonlat_from_campt(cnet_df, cube_paths, env)
                 trace == Trace(converted.cnet_df, converted.invoked, env)
             IN  IF converted.raised # "none"
                 THEN Raised(converted.raised, cnet_df, trace)
                 ELSE Aggregate(converted.df, "campt_lon", "campt_lat", trace)
        ELSE LET lon_col == FirstPresent(LonCandidates, cnet_df.cols)
                 lat_col == FirstPresent(LatCandidates, cnet_df.cols)
                 trace == Trace(cnet_df, <<>>, env)
             IN  IF lon_col = NoColumn \/ lat_col = NoColumn
                 THEN Raised("ValueError", cnet_df, trace)
                 ELSE Aggregate(cnet_df, lon_col, lat_col, trace)

(***************************************************************************)
(* io/controlnet.py: cnet_summary.                                         *)
(***************************************************************************)
\* Series.nunique(): the number of distinct values of a column (identifiers
\* are never null)
NUnique(t, col) == Cardinality({ t.rows[i][col] : i \in 1 .. NRows(t) })

\* a slip that counts every measure that is not ignored as registered
CountStatus_NotIgnored(t, value) ==
    Cardinality({ i \in 1 .. NRows(t) :
                    IF value = "registered" THEN t.rows[i]["status"] # "ignored"
                    ELSE t.rows[i]["status"] = value })

\* (df["status"] == value).sum()
CountStatus(t, value) ==
    Cardinality({ i \in 1 .. NRows(t) : t.rows[i]["status"] = value })

\* Series.max(): the largest value, nan when no row has one
MaxOf(t, col) ==
    LET valued == { t.rows[i][col] : i \in 1 .. NRows(t) } \ {NaN}
    IN  IF valued = {} THEN NaN
        ELSE CHOOSE x \in valued : \A y \in valued : y <= x

\* lines 137-146: the dictionary is built entry by entry; df["status"] and
\* df["residual_magnitude"] raise KeyError when the column is missing
cnet_summary(df) ==
    IF "status" \notin df.cols THEN [outcome |-> "KeyError", key |-> "status"]
    ELSE IF "residual_magnitude" \notin df.cols
    THEN [outcome |-> "KeyError", key |-> "residual_magnitude"]
    ELSE [outcome |-> "returned",
          n_points |-> IF "pointId" \in df.cols THEN NUnique(df, "pointId") ELSE 0,
          n_measures |-> NRows(df),
          n_images |-> IF "serialnumber" \in df.cols
                       THEN NUnique(df, "serialnumber") ELSE 0,
          n_registered |-> CountStatus(df, "registered"),
          n_unregistered |-> CountStatus(df, "unregistered"),
          n_ignored |-> CountStatus(df, "ignored"),
          mean_residual |-> Mean(df, "residual_magnitude", 1 .. NRows(df)),
          max_residual |-> MaxOf(df, "residual_magnitude")]

(***************************************************************************)
(* apps/tiepoint_review.py: _find_image_pairs.                             *)
(***************************************************************************)
\* ord(ch): Python orders strings by the code points of their characters
Ord(ch) ==
    CASE ch = "/" -> 47
      [] ch = "1" -> 49
      [] ch = "2" -> 50
      [] ch = "3" -> 51
      [] ch = "A" -> 65
      [] ch = "B" -> 66
      [] ch = "C" -> 67
      [] ch = "P" -> 80
      [] ch = "m" -> 109

\* a < b on strings
StrLess(a, b) ==
    \E i \in 1 .. (Len(a) + 1) :
        /\ i <= Len(b)
        /\ \A j \in 1 .. (i - 1) : a[j] = b[j]
        /\ i = Len(a) + 1 \/ Ord(a[i]) < Ord(b[i])

\* sorted(S) for a set of strings
SortedStrings(S) ==
    [k \in 1 .. Cardinality(S) |->
        CHOOSE x \in S : Cardinality({ y \in S : StrLess(y, x) }) = k - 1]

\* a slip that keeps the serial numbers of a point in the order of their rows
SerialsList_Unsorted(t, point_id) ==
    LET rows == { i \in 1 .. NRows(t) : t.rows[i]["pointId"] = point_id }
        firsts == { i \in rows :
                      \A j \in rows : t.rows[j]["serialnumber"] = t.rows[i]["serialnumber"]
                                        => i <= j }
    IN  [k \in 1 .. Cardinality(firsts) |->
            t.rows[CHOOSE i \in firsts : Cardinality({ j \in firsts : j < i }) = k - 1]
                ["serialnumber"]]

\* lines 47 and 51: sorted(set of the serial numbers of the point's rows)
SerialsList(t, point_id) ==
    SortedStrings({ t.rows[i]["serialnumber"] :
                      i \in { j \in 1 .. NRows(t) : t.rows[j]["pointId"] = point_id } })

\* lines 52-54: the pairs (s1, s2) of a list in the order the two loops yield them
PairsOfList(l) ==
    LET idx == { p \in (1 .. Len(l)) \X (1 .. Len(l)) : p[1] < p[2] }
        Before(q, p) == q[1] < p[1] \/ (q[1] = p[1] /\ q[2] < p[2])
    IN  [k \in 1 .. Cardinality(idx) |->
            LET p == CHOOSE p \in idx : Cardinality({ q \in idx : Before(q, p) }) = k - 1
            IN  <<l[p[1]], l[p[2]]>>]

\* line 55 on a dict, which keeps its keys in the order they were first set
Bump(counts, pair) ==
    IF \E k \in DOMAIN counts : counts[k].pair = pair
    THEN [k \in DOMAIN counts |->
            IF counts[k].pair = pair THEN [counts[k] EXCEPT !.count = @ + 1]
            ELSE counts[k]]
    ELSE Append(counts, [pair |-> pair, count |-> 1])

RECURSIVE BumpAll(_, _, _)
BumpAll(counts, pairs, k) ==
    IF k > Len(pairs) THEN counts
    ELSE BumpAll(Bump(counts, pairs[k]), pairs, k + 1)

\* lines 50-55 from the k-th point on; groupby yields the points in sorted order
RECURSIVE CountPoints(_, _, _, _)
CountPoints(counts, t, point_ids, k) ==
    IF k > Len(point_ids) THEN counts
    ELSE CountPoints(BumpAll(counts, PairsOfList(SerialsList(t, point_ids[k])), 1),
                     t, point_ids, k + 1)

\* line 58: sorted(..., key=lambda x: -x[1]); sorted is stable, so entries with
\* equal counts keep the order they have in the dict
SortedByCount(counts) ==
    [k \in DOMAIN counts |->
        counts[CHOOSE i \in DOMAIN counts :
                 Cardinality({ j \in DOMAIN counts :
                                 \/ counts[j].count > counts[i].count
                                 \/ counts[j].count = counts[i].count /\ j < i }) = k - 1]]

\* lines 38-59; pair_counts is kept next to the list returned
_find_image_pairs(cnet_df) ==
    LET point_ids == SortedStrings({ cnet_df.rows[i]["pointId"] : i \in 1 .. NRows(cnet_df) })
        pair_counts == CountPoints(<<>>, cnet_df, point_ids, 1)
        sorted_pairs == SortedByCount(pair_counts)
    IN  [outcome |-> "returned",
         pair_counts |-> pair_counts,
         pairs |-> [k \in DOMAIN sorted_pairs |-> sorted_pairs[k].pair]]

(***************************************************************************)
(* SpecClassify: the classifier applied to one measurement.                *)
(***************************************************************************)
ClassifierFields ==
    {"pointIgnore", "measureIgnore", "measureType", "residualSample", "residualLine"}

\* residual values tried: either side of the threshold, on it, and nan
ResidualValues == {NaN, 0 - 2, 0 - 1, 0, 1, 2, 3, 4}

MeasureTypes == 0 .. 3

FullMeasurements ==
    [pointIgnore : BOOLEAN, measureIgnore : BOOLEAN, measureType : MeasureTypes,
     residualSample : ResidualValues, residualLine : ResidualValues]

\* the row r with only the fields fs present
Restrict(r, fs) == [f \in fs |-> r[f]]

\* every measurement over every subset of the five fields
Measurements ==
    { Restrict(r, fs) : r \in FullMeasurements, fs \in SUBSET ClassifierFields }

(***************************************************************************)
(* io/controlnet.py: load_cnet as the steps between which the file system  *)
(* and the cache can be observed.  One path; the file system stamps every  *)
(* write with a later modification time.                                   *)
(***************************************************************************)
Path == "a.net"

Callers == {"c1", "c2"}

NoKey == <<>>

NoTable == Table({"<none>"}, <<>>)

NoMtime == 0 - 1

\* a slip that leaves the modification time out of the key
CacheKey_NoMtime(path, mtime) == <<"cnet", path, 0>>

\* line 75: f"cnet:{path}:{path.stat().st_mtime_ns}"
CacheKey(path, mtime) == <<"cnet", path, mtime>>

IdleCall ==
    [pc |-> "idle", key |-> NoKey, df |-> NoTable,
     \* what the call has done so far, recorded for the properties:
     existed |-> FALSE,     \* the path existed when the call began
     mtime |-> NoMtime,     \* the modification time path.stat() gave
     raw |-> NoTable,       \* the table the reader returned
     opened |-> 0, gets |-> 0, sets |-> 0, reads |-> 0,  \* cache and reader calls
     fault |-> "none",      \* the cache operation that raised
     began |-> 0]           \* the number of calls that had ended when it began

\* the call of caller p ends: with outcome "returned" it returns table
Finish(p, c, outcome, hit, table) ==
    /\ log' = Append(log,
                [caller |-> p, existed |-> c.existed, key |-> c.key,
                 mtime |-> c.mtime, raw |-> c.raw,
                 outcome |-> outcome, hit |-> hit, table |-> table,
                 opened |-> c.opened, gets |-> c.gets, sets |-> c.sets,
                 reads |-> c.reads, fault |-> c.fault, began |-> c.began])
    /\ call' = [call EXCEPT ![p] = IdleCall]

\* a slip that consults the cache before looking at the path
LoadBegin_NoExistsCheck(p) ==
    /\ call[p].pc = "idle"
    /\ call' = [call EXCEPT ![p] =
                  [IdleCall EXCEPT !.existed = file.exists, !.began = Len(log),
                                   !.pc = "open"]]
    /\ UNCHANGED <<file, cache, log, limits, clsVars, geoVars, camptVars, sumVars, pairVars, appVars>>

\* lines 68-70: the call begins; a path that does not exist raises at once
LoadBegin(p) ==
    /\ call[p].pc = "idle"
    /\ LET c == [IdleCall EXCEPT !.existed = file.exists, !.began = Len(log)]
       IN  IF ~file.exists
           THEN Finish(p, c, "FileNotFoundError", FALSE, NoTable)
           ELSE /\ call' = [call EXCEPT ![p] = [c EXCEPT !.pc = "open"]]
                /\ UNCHANGED log
    /\ UNCHANGED <<file, cache, limits, clsVars, geoVars, camptVars, sumVars, pairVars, appVars>>

\* lines 72-74: get_cache() opens the cache directory, or raises
LoadGetCache(p) ==
    /\ call[p].pc = "open"
    /\ \E ok \in BOOLEAN :
         IF ok
         THEN /\ call' = [call EXCEPT ![p].pc = "stat", ![p].opened = @ + 1]
              /\ UNCHANGED log
         ELSE Finish(p, [call[p] EXCEPT !.fault = "open"], "CacheError", FALSE, NoTable)
    /\ UNCHANGED <<file, cache, limits, clsVars, geoVars, camptVars, sumVars, pairVars, appVars>>

\* line 75: path.stat() for the key; raises when the file is gone by now
LoadStat(p) ==
    /\ call[p].pc = "stat"
    /\ IF file.exists
       THEN /\ call' = [call EXCEPT ![p].pc = "get",
                                    ![p].key = CacheKey(Path, file.mtime),
                                    ![p].mtime = file.mtime]
            /\ UNCHANGED log
       ELSE Finish(p, call[p], "FileNotFoundError", FALSE, NoTable)
    /\ UNCHANGED <<file, cache, limits, clsVars, geoVars, camptVars, sumVars, pairVars, appVars>>

\* a slip that never takes the hit
LoadCacheGet_NoHit(p) ==
    /\ call[p].pc = "get"
    /\ call' = [call EXCEPT ![p].pc = "read", ![p].gets = @ + 1]
    /\ UNCHANGED <<file, cache, log, limits, clsVars, geoVars, camptVars, sumVars, pairVars, appVars>>

\* lines 76-78: cache.get(cache_key); a hit returns the cached table
LoadCacheGet(p) ==
    /\ call[p].pc = "get"
    /\ \E ok \in BOOLEAN :
         LET c == [call[p] EXCEPT !.gets = @ + 1] IN
         IF ~ok
         THEN Finish(p, [c EXCEPT !.fault = "get"], "CacheError", FALSE, NoTable)
         ELSE IF c.key \in DOMAIN cache
         THEN Finish(p, c, "returned", TRUE, cache[c.key])
         ELSE /\ call' = [call EXCEPT ![p] = [c EXCEPT !.pc = "read"]]
              /\ UNCHANGED log
    /\ UNCHANGED <<file, cache, limits, clsVars, geoVars, camptVars, sumVars, pairVars, appVars>>

\* lines 80-109: from_isis(path) parses the file as it is now, then the table
\* is built; the reader raises when the file is gone
LoadFromIsis(p) ==
    /\ call[p].pc = "read"
    /\ LET c == [call[p] EXCEPT !.reads = @ + 1] IN
       IF file.exists
       THEN /\ call' = [call EXCEPT ![p] =
                          [c EXCEPT !.pc = "set", !.raw = file.content,
                                    !.df = BuildTable(file.content)]]
            /\ UNCHANGED log
       ELSE Finish(p, c, "ReaderError", FALSE, NoTable)
    /\ UNCHANGED <<file, cache, limits, clsVars, geoVars, camptVars, sumVars, pairVars, appVars>>

\* a slip that stores the reader's table instead of the built one
LoadCacheSet_StoresRaw(p) ==
    /\ call[p].pc = "set"
    /\ \E ok \in BOOLEAN :
         LET c == [call[p] EXCEPT !.sets = @ + 1] IN
         IF ok
         THEN /\ cache' = [k \in DOMAIN cache \cup {c.key} |->
                             IF k = c.key THEN c.raw ELSE cache[k]]
              /\ Finish(p, c, "returned", FALSE, c.df)
         ELSE /\ Finish(p, [c EXCEPT !.fault = "set"], "CacheError", FALSE, NoTable)
              /\ UNCHANGED cache
    /\ UNCHANGED <<file, limits, clsVars, geoVars, camptVars, sumVars, pairVars, appVars>>

\* lines 111-112: cache.set(cache_key, df); return df
LoadCacheSet(p) ==
    /\ call[p].pc = "set"
    /\ \E ok \in BOOLEAN :
         LET c == [call[p] EXCEPT !.sets = @ + 1] IN
         IF ok
         THEN /\ cache' = [k \in DOMAIN cache \cup {c.key} |->
                             IF k = c.key THEN c.df ELSE cache[k]]
              /\ Finish(p, c, "returned", FALSE, c.df)
         ELSE /\ Finish(p, [c EXCEPT !.fault = "set"], "CacheError", FALSE, NoTable)
              /\ UNCHANGED cache
    /\ UNCHANGED <<file, limits, clsVars, geoVars, camptVars, sumVars, pairVars, appVars>>

(***************************************************************************)
(* The file system: the control network is rewritten or removed by others. *)
(***************************************************************************)
\* a file with content c, stamped with modification time 0.  history keeps,
\* for the properties, the content that each modification time stamped:
\* history[m + 1] is the content written at time m
FileWith(c) == [exists |-> TRUE, mtime |-> 0, content |-> c, history |-> << c >>]

\* the file is (re)written with content c and stamped with a later time
WriteFile(c) ==
    /\ file' = [exists |-> TRUE, mtime |-> file.mtime + 1, content |-> c,
                history |-> Append(file.history, c)]
    /\ UNCHANGED <<cache, call, log, limits, clsVars, geoVars, camptVars, sumVars, pairVars, appVars>>

DeleteFile ==
    /\ file.exists
    /\ file' = [file EXCEPT !.exists = FALSE]
    /\ UNCHANGED <<cache, call, log, limits, clsVars, geoVars, camptVars, sumVars, pairVars, appVars>>

(***************************************************************************)
(* What the binary reader can return (plio column names).                  *)
(***************************************************************************)
MaxRows == 2

\* residuals found in files: null, zero, one on the threshold, some above it
FileResiduals == {NaN, 0, 1, 3, 4, 0 - 2}

OptionalColumns ==
    {"measureType", "pointIgnore", "measureIgnore", "sampleResidual", "lineResidual"}

\* columns every network of this model carries; measureLog stands for the
\* protobuf fields that load_cnet drops
FixedColumns == {"id", "serialnumber", "measureLog"}

RawRows ==
    [id : {"p1"}, serialnumber : {"s1"}, measureLog : {"<protobuf>"},
     measureType : MeasureTypes, pointIgnore : BOOLEAN, measureIgnore : BOOLEAN,
     sampleResidual : FileResiduals, lineResidual : FileResiduals]

\* rows used in tables of more than one row: all fields, one of each status
SampleRows ==
    { r \in RawRows :
        /\ ~r.measureIgnore
        /\ r.measureType \in {0, 2}
        /\ <<r.sampleResidual, r.lineResidual>> \in {<<0, 0>>, <<3, 4>>, <<0, 0 - 2>>}
        /\ (r.pointIgnore => r.measureType = 0 /\ r.sampleResidual = 0) }

\* one-row networks over every subset of the optional columns
OneRowNetworks ==
    { Table(FixedColumns \cup cs, << Restrict(r, FixedColumns \cup cs) >>) :
        r \in RawRows, cs \in SUBSET OptionalColumns }

\* networks of 0 and of 2..MaxRows rows with every column
ManyRowNetworks ==
    { Table(FixedColumns \cup OptionalColumns, rs) :
        rs \in UNION { [1 .. n -> SampleRows] : n \in (0 .. MaxRows) \ {1} } }

Networks == OneRowNetworks \cup ManyRowNetworks

\* what a later write puts in the file
Rewrites ==
    { Table(FixedColumns \cup OptionalColumns, rs) :
        rs \in { <<>> } \cup
               { << r >> : r \in { x \in SampleRows :
                                     x.measureType = 2 /\ x.sampleResidual = 3 } } }

(***************************************************************************)
(* Specifications.                                                         *)
(***************************************************************************)
MaxCalls == 3

MaxMtime == 2

IdleClassify ==
    /\ row = <<>>
    /\ status = "pending"

IdleLoad ==
    /\ file = [exists |-> FALSE, mtime |-> 0, content |-> Table({}, <<>>),
               history |-> << Table({}, <<>>) >>]
    /\ cache = <<>>
    /\ call = [p \in Callers |-> IdleCall]
    /\ log = <<>>
    /\ limits = [calls |-> 0, mtime |-> 0]

NoPaths == [given |-> FALSE, paths |-> <<>>]

Pending ==
    [outcome |-> "pending", points |-> <<>>, lon_col |-> NoColumn,
     lat_col |-> NoColumn, columns |-> {}, table |-> Table({}, <<>>)]

IdleGeo ==
    /\ geoIn = [cnet_df |-> Table({}, <<>>), cube_paths |-> NoPaths]
    /\ geoOut = Pending

IdleCampt == campt = [pc |-> "idle"]

IdleSummary ==
    /\ sumIn = Table({}, <<>>)
    /\ sumOut = [outcome |-> "idle"]

IdlePairs ==
    /\ pairsIn = Table({}, <<>>)
    /\ pairsOut = [outcome |-> "idle"]

IdleApps ==
    /\ review = [pc |-> "idle"]
    /\ viewer = [pc |-> "idle"]

InitClassify ==
    /\ row \in Measurements
    /\ status = "pending"
    /\ IdleLoad
    /\ IdleGeo
    /\ IdleCampt
    /\ IdleSummary
    /\ IdlePairs
    /\ IdleApps

ClassifyRow ==
    /\ status = "pending"
    /\ status' = _classify_point_status(row)
    /\ UNCHANGED row
    /\ UNCHANGED <<loadVars, geoVars, camptVars, sumVars, pairVars, appVars>>

NextClassify == ClassifyRow

SpecClassify == InitClassify /\ [][NextClassify]_vars

\* SpecLoad: one caller loads the file again and again while the file system
\* rewrites and removes it and the cache may fail.  Runs start either from any
\* network, loaded once, or from one of a few networks, loaded up to MaxCalls
\* times across up to MaxMtime rewrites.
InitLoad ==
    /\ \/ /\ file \in { FileWith(c) : c \in Networks }
          /\ limits = [calls |-> 1, mtime |-> 0]
       \/ /\ file \in { FileWith(c) : c \in Rewrites }
          /\ limits = [calls |-> MaxCalls, mtime |-> MaxMtime]
    /\ cache = <<>>
    /\ call = [p \in Callers |-> IdleCall]
    /\ log = <<>>
    /\ IdleClassify
    /\ IdleGeo
    /\ IdleCampt
    /\ IdleSummary
    /\ IdlePairs
    /\ IdleApps

Started == Len(log) + Cardinality({p \in Callers : call[p].pc # "idle"})

\* the one caller of this specification
LoadBeginBounded == Started < limits.calls /\ LoadBegin("c1")

WriteFileBounded == \E c \in Rewrites : file.mtime < limits.mtime /\ WriteFile(c)

NextLoad ==
    \/ LoadBeginBounded
    \/ LoadGetCache("c1")
    \/ LoadStat("c1")
    \/ LoadCacheGet("c1")
    \/ LoadFromIsis("c1")
    \/ LoadCacheSet("c1")
    \/ WriteFileBounded
    \/ DeleteFile

SpecLoad == InitLoad /\ [][NextLoad]_vars

\* SpecConcurrent: the callers load the same file at the same time, their
\* steps interleaved in every order; nobody rewrites or removes the file.
\* Up to MaxCalls calls are made in all.
InitConcurrent ==
    /\ file \in { FileWith(c) : c \in Rewrites }
    /\ limits = [calls |-> MaxCalls, mtime |-> 0]
    /\ cache = <<>>
    /\ call = [p \in Callers |-> IdleCall]
    /\ log = <<>>
    /\ IdleClassify
    /\ IdleGeo
    /\ IdleCampt
    /\ IdleSummary
    /\ IdlePairs
    /\ IdleApps

ConcurrentBegin == \E p \in Callers : Started < limits.calls /\ LoadBegin(p)

ConcurrentGetCache == \E p \in Callers : LoadGetCache(p)

ConcurrentStat == \E p \in Callers : LoadStat(p)

ConcurrentCacheGet == \E p \in Callers : LoadCacheGet(p)

ConcurrentFromIsis == \E p \in Callers : LoadFromIsis(p)

ConcurrentCacheSet == \E p \in Callers : LoadCacheSet(p)

NextConcurrent ==
    \/ ConcurrentBegin
    \/ ConcurrentGetCache
    \/ ConcurrentStat
    \/ ConcurrentCacheGet
    \/ ConcurrentFromIsis
    \/ ConcurrentCacheSet

SpecConcurrent == InitConcurrent /\ [][NextConcurrent]_vars

(***************************************************************************)
(* SpecGeo: cnet_to_geodataframe applied to one measurement table.         *)
(***************************************************************************)
MaxGeoRows == 3

\* two serial numbers that end in their clock identifier
Serial1 == <<"m", "/", "1">>

Serial2 == <<"m", "/", "2">>

Serials == {Serial1, Serial2}

CoordinateColumns == Range(LonCandidates) \cup Range(LatCandidates)

\* columns every measurement table of this model carries
MeasureColumns ==
    {"pointId", "serialnumber", "sample", "line", "status", "residual_magnitude",
     "pointType"}

SomePaths == [given |-> TRUE, paths |-> <<"cube1", "cube2">>]

\* Tables for the choice of coordinate columns: two measures of two points over
\* every subset of the eight coordinate columns, each present column either
\* zero on both rows or non-zero on the second.
ColumnChoiceTables ==
    { Table(MeasureColumns \cup DOMAIN profile,
            [i \in 1 .. 2 |->
                [c \in MeasureColumns \cup DOMAIN profile |->
                    CASE c = "pointId" -> SortedPointIds[i]
                      [] c = "serialnumber" -> IF i = 1 THEN Serial1 ELSE Serial2
                      [] c = "sample" -> 7
                      [] c = "line" -> 3
                      [] c = "status" -> "registered"
                      [] c = "residual_magnitude" -> 5
                      [] c = "pointType" -> "Free"
                      [] OTHER -> IF i = 2 /\ profile[c] THEN 10 ELSE 0]]) :
        profile \in UNION { [cs -> BOOLEAN] : cs \in SUBSET CoordinateColumns } }

\* Tables for the aggregation per point: up to MaxGeoRows measures of two
\* points with any status.  Either the table has the adjusted lon/lat columns
\* and a longitude that may be null, or it has no coordinate column and two
\* serial numbers (for the conversion through campt).
RowsWithCoordinates ==
    [pointId : Range(SortedPointIds), serialnumber : {Serial1}, sample : {7},
     line : {3}, status : Statuses, residual_magnitude : {5}, pointType : {"Free"},
     adjustedLon : {NaN, 20}, adjustedLat : {30}]

RowsWithoutCoordinates ==
    [pointId : Range(SortedPointIds), serialnumber : Serials, sample : {7},
     line : {3}, status : Statuses, residual_magnitude : {5}, pointType : {"Free"}]

TablesOver(cols, rows) ==
    { Table(cols, rs) : rs \in UNION { [1 .. n -> rows] : n \in 0 .. MaxGeoRows } }

AggregationTables ==
    TablesOver(MeasureColumns \cup {"adjustedLon", "adjustedLat"}, RowsWithCoordinates)
    \cup TablesOver(MeasureColumns, RowsWithoutCoordinates)

\* Tables for the values a stored coordinate can hold: up to two registered
\* measures of two points whose longitude and latitude may be null or infinite.
RowsWithAnyFloat ==
    [pointId : Range(SortedPointIds), serialnumber : {Serial1}, sample : {7},
     line : {3}, status : {"registered"}, residual_magnitude : {5},
     pointType : {"Free"},
     adjustedLon : {NaN, 20, PosInf, NegInf}, adjustedLat : {NaN, 30, PosInf}]

FloatTables ==
    { Table(MeasureColumns \cup {"adjustedLon", "adjustedLat"}, rs) :
        rs \in UNION { [1 .. n -> RowsWithAnyFloat] : n \in 0 .. 2 } }

\* Tables for the fields of a point: up to two registered measures of two
\* points with any residual magnitude (never null in a measurement table) and
\* point type, with or without a longitude.
RowsWithAnyRecord ==
    [pointId : Range(SortedPointIds), serialnumber : {Serial1}, sample : {7},
     line : {3}, status : {"registered"}, residual_magnitude : {0, 5, 8},
     pointType : {"Free", "Fixed"}, adjustedLon : {NaN, 20}, adjustedLat : {30}]

RecordTables ==
    { Table(MeasureColumns \cup {"adjustedLon", "adjustedLat"}, rs) :
        rs \in UNION { [1 .. n -> RowsWithAnyRecord] : n \in 0 .. 2 } }

InitGeo ==
    /\ geoIn \in [cnet_df : ColumnChoiceTables \cup AggregationTables
                              \cup FloatTables \cup RecordTables,
                  cube_paths : {NoPaths, SomePaths}]
    /\ geoOut = Pending
    /\ IdleClassify
    /\ IdleLoad
    /\ IdleCampt
    /\ IdleSummary
    /\ IdlePairs
    /\ IdleApps

\* what the labels of the two cubes yield: both clock identifiers, the first
\* only, none
GeoLabels ==
    { [p \in {"cube1", "cube2"} |-> IF p = "cube1" THEN ab[1] ELSE ab[2]] :
        ab \in { <<<<"1">>, <<"2">>>>, <<<<"1">>, NoClock>>, <<NoClock, NoClock>> } }

\* the fates an image meets in this specification: a failure (which ends the
\* call when it is the first image tried, and is passed over after that) or
\* a success
GeoFates == {"tempfile_fails", "ok"}

\* an environment for a call that never reaches campt
NoEnv == [labels |-> [p \in {"cube1", "cube2"} |-> NoClock],
          tool |-> [sn \in Serials |-> "ok"]]

\* the call on the direct branch (line 280: needs_conversion is False).  geoIn
\* is the caller's table object: after the call it holds what the call left
GeoCallDirect ==
    /\ geoOut.outcome = "pending"
    /\ ~(~_has_ground_coords(geoIn.cnet_df) /\ geoIn.cube_paths.given)
    /\ geoOut' = cnet_to_geodataframe(geoIn.cnet_df, geoIn.cube_paths, NoEnv)
    /\ geoIn' = [geoIn EXCEPT !.cnet_df = geoOut'.cnet_df]
    /\ UNCHANGED <<clsVars, loadVars, camptVars, sumVars, pairVars, appVars>>

\* the call through campt (needs_conversion is True); the labels of the cubes
\* and what campt does for each serial number are up to the environment
GeoCallConvert ==
    /\ geoOut.outcome = "pending"
    /\ ~_has_ground_coords(geoIn.cnet_df) /\ geoIn.cube_paths.given
    /\ \E env \in [labels : GeoLabels, tool : [Serials -> GeoFates]] :
         geoOut' = cnet_to_geodataframe(geoIn.cnet_df, geoIn.cube_paths, env)
    /\ geoIn' = [geoIn EXCEPT !.cnet_df = geoOut'.cnet_df]
    /\ UNCHANGED <<clsVars, loadVars, camptVars, sumVars, pairVars, appVars>>

NextGeo ==
    \/ GeoCallDirect
    \/ GeoCallConvert

SpecGeo == InitGeo /\ [][NextGeo]_vars

(***************************************************************************)
(* SpecCampt: one call of _lonlat_from_campt, a serial number at a time.   *)
(***************************************************************************)
MaxCamptRows == 3

MaxSerialLen == 3

MaxClockLen == 2

Alphabet == {"m", "1", "/"}

\* the strings of up to n characters in which "/" only separates non-empty parts
Strings(n) ==
    { s \in UNION { [1 .. k -> Alphabet] : k \in 1 .. n } :
        /\ s[1] # "/"
        /\ s[Len(s)] # "/"
        /\ \A i \in 1 .. (Len(s) - 1) : ~(s[i] = "/" /\ s[i + 1] = "/") }

\* a serial number that holds the clock identifier "1" before its last "/"
Serial3 == <<"1", "/", "m">>

CamptColumns == {"pointId", "serialnumber", "sample", "line"}

\* the table whose i-th measure has serial number sns[i], sample i, line 2i
CamptTable(sns) ==
    Table(CamptColumns,
          [i \in DOMAIN sns |->
              [pointId |-> "p1", serialnumber |-> sns[i], sample |-> i, line |-> 2 * i]])

\* Either one measure with any serial number and one cube with any clock
\* identifier, or up to MaxCamptRows measures in three images and two cubes.
CamptInputs ==
    { [t |-> CamptTable(<<sn>>), paths |-> <<"cube1">>, labels |-> l] :
        sn \in Strings(MaxSerialLen),
        l \in [{"cube1"} -> Strings(MaxClockLen) \cup {NoClock}] }
    \cup
    { [t |-> CamptTable(sns), paths |-> <<"cube1", "cube2">>, labels |-> l] :
        sns \in UNION { [1 .. n -> {Serial1, Serial2, Serial3}] : n \in 0 .. MaxCamptRows },
        l \in [{"cube1", "cube2"} -> {<<"1">>, <<"2">>, <<"m">>, NoClock}] }

InitCampt ==
    /\ \E x \in CamptInputs :
         campt = [pc |-> "called", t |-> x.t, paths |-> x.paths, labels |-> x.labels]
    /\ IdleClassify
    /\ IdleLoad
    /\ IdleGeo
    /\ IdleSummary
    /\ IdlePairs
    /\ IdleApps

\* lines 191-198: the lookup, the copy with the two nan columns, the counter
\* and the serial numbers to go through; fates records what each one met
CamptBegin ==
    /\ campt.pc = "called"
    /\ campt' = [pc |-> "loop", t |-> campt.t, paths |-> campt.paths,
                 labels |-> campt.labels,
                 clock_lookup |-> build_serial_lookup(campt.paths, campt.labels),
                 c |-> CamptStart(campt.t),
                 sns |-> Unique(campt.t, "serialnumber"),
                 k |-> 1,
                 fates |-> <<>>]
    /\ UNCHANGED <<clsVars, loadVars, geoVars, sumVars, pairVars, appVars>>

\* the locals after the loop body ran for the next serial number
CamptAfter(fate) ==
    LET d == CamptIteration(campt.c, campt.k, campt.sns[campt.k],
                            campt.clock_lookup, fate)
    IN  [campt EXCEPT !.c = d,
                      !.k = @ + 1,
                      !.fates = Append(@, fate),
                      !.pc = IF d.raised = "none" THEN "loop" ELSE "done"]

\* lines 199-201: the serial number's clock is not in the lookup
CamptSkip ==
    /\ campt.pc = "loop"
    /\ campt.k <= Len(campt.sns)
    /\ RsplitLast(campt.sns[campt.k]) \notin DOMAIN campt.clock_lookup
    /\ campt' = CamptAfter("unresolved")
    /\ UNCHANGED <<clsVars, loadVars, geoVars, sumVars, pairVars, appVars>>

\* lines 199-248: the serial number resolves and the try block runs
CamptTry ==
    /\ campt.pc = "loop"
    /\ campt.k <= Len(campt.sns)
    /\ RsplitLast(campt.sns[campt.k]) \in DOMAIN campt.clock_lookup
    /\ \E fate \in Fates : campt' = CamptAfter(fate)
    /\ UNCHANGED <<clsVars, loadVars, geoVars, sumVars, pairVars, appVars>>

\* lines 250-253
CamptReturn ==
    /\ campt.pc = "loop"
    /\ campt.k > Len(campt.sns)
    /\ campt' = [campt EXCEPT !.c = CamptEnd(campt.c), !.pc = "done"]
    /\ UNCHANGED <<clsVars, loadVars, geoVars, sumVars, pairVars, appVars>>

NextCampt ==
    \/ CamptBegin
    \/ CamptSkip
    \/ CamptTry
    \/ CamptReturn

SpecCampt == InitCampt /\ [][NextCampt]_vars

(***************************************************************************)
(* SpecSummary: cnet_summary applied to one measurement table.             *)
(***************************************************************************)
MaxSummaryRows == 2

SummaryColumns == {"pointId", "serialnumber", "status", "residual_magnitude"}

SummaryRows ==
    [pointId : Range(SortedPointIds), serialnumber : Serials, status : Statuses,
     residual_magnitude : {NaN, 5}]

\* every table of up to n measures over every subset of the four columns
SummaryTables(n) ==
    { Table(cs, [i \in DOMAIN rs |-> Restrict(rs[i], cs)]) :
        cs \in SUBSET SummaryColumns,
        rs \in UNION { [1 .. k -> SummaryRows] : k \in 0 .. n } }

InitSummary ==
    /\ sumIn \in SummaryTables(MaxSummaryRows)
    /\ sumOut = [outcome |-> "pending"]
    /\ IdleClassify
    /\ IdleLoad
    /\ IdleGeo
    /\ IdleCampt
    /\ IdlePairs
    /\ IdleApps

SummaryCall ==
    /\ sumOut.outcome = "pending"
    /\ sumOut' = cnet_summary(sumIn)
    /\ UNCHANGED <<sumIn, clsVars, loadVars, geoVars, camptVars, pairVars, appVars>>

NextSummary == SummaryCall

SpecSummary == InitSummary /\ [][NextSummary]_vars

(***************************************************************************)
(* SpecPairs: _find_image_pairs applied to one measurement table.          *)
(***************************************************************************)
MaxPairRows == 4

PairPointIds == {<<"P", "1">>, <<"P", "2">>, <<"P", "3">>}

PairSerials == {<<"A">>, <<"B">>, <<"C">>}

PairRows == [pointId : PairPointIds, serialnumber : PairSerials]

\* the network P1 = {A, B}, P2 = {A, B}, P3 = {A, C}
ExampleNetwork ==
    Table({"pointId", "serialnumber"},
          << [pointId |-> <<"P", "1">>, serialnumber |-> <<"A">>],
             [pointId |-> <<"P", "1">>, serialnumber |-> <<"B">>],
             [pointId |-> <<"P", "2">>, serialnumber |-> <<"A">>],
             [pointId |-> <<"P", "2">>, serialnumber |-> <<"B">>],
             [pointId |-> <<"P", "3">>, serialnumber |-> <<"A">>],
             [pointId |-> <<"P", "3">>, serialnumber |-> <<"C">>] >>)

\* every table of up to n measures of three points in three images, in every
\* order of its rows, and the example network
PairTables(n) ==
    { Table({"pointId", "serialnumber"}, rs) :
        rs \in UNION { [1 .. k -> PairRows] : k \in 0 .. n } }
    \cup {ExampleNetwork}

InitPairs ==
    /\ pairsIn \in PairTables(MaxPairRows)
    /\ pairsOut = [outcome |-> "pending"]
    /\ IdleClassify
    /\ IdleLoad
    /\ IdleGeo
    /\ IdleCampt
    /\ IdleSummary
    /\ IdleApps

PairsCall ==
    /\ pairsOut.outcome = "pending"
    /\ pairsOut' = _find_image_pairs(pairsIn)
    /\ UNCHANGED <<pairsIn, clsVars, loadVars, geoVars, camptVars, sumVars, appVars>>

NextPairs == PairsCall

SpecPairs == InitPairs /\ [][NextPairs]_vars

(***************************************************************************)
(* SpecLoadSummary: a network is loaded, from the file or from the cache,  *)
(* and the table load_cnet returned is summarised.                         *)
(***************************************************************************)
InitLoadSummary ==
    /\ file \in { FileWith(c) : c \in Networks }
    /\ limits = [calls |-> 2, mtime |-> 0]
    /\ cache = <<>>
    /\ call = [p \in Callers |-> IdleCall]
    /\ log = <<>>
    /\ IdleClassify
    /\ IdleGeo
    /\ IdleCampt
    /\ IdleSummary
    /\ IdlePairs
    /\ IdleApps

\* cnet_summary(load_cnet(path)): the table the last call returned is
\* summarised
SummarizeLoaded ==
    /\ sumOut.outcome = "idle"
    /\ log # <<>>
    /\ log[Len(log)].outcome = "returned"
    /\ sumIn' = log[Len(log)].table
    /\ sumOut' = cnet_summary(log[Len(log)].table)
    /\ UNCHANGED <<clsVars, loadVars, geoVars, camptVars, pairVars, appVars>>

NextLoadSummary ==
    \/ LoadBeginBounded
    \/ LoadGetCache("c1")
    \/ LoadStat("c1")
    \/ LoadCacheGet("c1")
    \/ LoadFromIsis("c1")
    \/ LoadCacheSet("c1")
    \/ SummarizeLoaded

SpecLoadSummary == InitLoadSummary /\ [][NextLoadSummary]_vars

(***************************************************************************)
(* SpecViews: one of the three derived views is computed from a table the  *)
(* caller keeps: cnet_to_geodataframe (directly or through campt),         *)
(* cnet_summary or _find_image_pairs.                                      *)
(***************************************************************************)
MaxViewRows == 2

InitViews ==
    /\ \/ /\ geoIn \in [cnet_df : ColumnChoiceTables \cup FloatTables,
                        cube_paths : {NoPaths, SomePaths}]
          /\ geoOut = Pending
          /\ IdleSummary
          /\ IdlePairs
       \/ /\ sumIn \in SummaryTables(MaxViewRows)
          /\ sumOut = [outcome |-> "pending"]
          /\ IdleGeo
          /\ IdlePairs
       \/ /\ pairsIn \in PairTables(MaxViewRows)
          /\ pairsOut = [outcome |-> "pending"]
          /\ IdleGeo
          /\ IdleSummary
    /\ IdleClassify
    /\ IdleLoad
    /\ IdleCampt
    /\ IdleApps

NextViews ==
    \/ GeoCallDirect
    \/ GeoCallConvert
    \/ SummaryCall
    \/ PairsCall

SpecViews == InitViews /\ [][NextViews]_vars

(***************************************************************************)
(* apps/mosaic_review.py and apps/components.py: MosaicReview, its         *)
(* control-network selector and its image dropdown.                        *)
(***************************************************************************)
\* Python's None
None == [none |-> TRUE]

\* lines 15-37: the names the module mosaic_review binds
ModuleNames ==
    {"Path", "TYPE_CHECKING", "hv", "pn", "CnetInfoPanel", "CnetSelector",
     "CubeListSelector", "load_cnet", "load_cube", "read_label", "load_footprints",
     "read_cube_list", "cnet_to_geodataframe", "footprint_map",
     "footprint_map_with_cnet", "image_with_cnet", "image_plot", "MosaicReview"}

\* the point table kept in _cnet_gdf
GeoDataFrame(points) == [points |-> points]

\* what a pane or a status line shows
Div(text) == [kind |-> "div", text |-> text]

ErrorDiv(error) == [kind |-> "error", error |-> error]

\* lines 63-91: the attributes before the automatic loads
NewReview ==
    [pc |-> "ready", _footprints |-> "None", _cnet_df |-> None, _cnet_gdf |-> None,
     _cnet_info |-> Div("No control network loaded"), status |-> Div(""),
     _map_pane |-> Div("Load a cube list to begin"),
     _image_pane |-> Div("Select an image from the map"),
     \* recorded for the properties: the loads and selections made so far, the
     \* last selection and what it met
     loads |-> 0, selections |-> 0, selection |-> None]

\* lines 141-154
_update_map(r) ==
    IF r._footprints \in {"None", "empty"}
    THEN [r EXCEPT !._map_pane = Div("No footprints loaded")]
    ELSE IF r._cnet_gdf # None /\ Len(r._cnet_gdf.points) > 0
    THEN [r EXCEPT !._map_pane = Div("footprint_map_with_cnet")]
    ELSE [r EXCEPT !._map_pane = Div("footprint_map")]

\* lines 99-115: cubes is what reading the list and the footprints gave
_auto_load_cubes(r, cubes) ==
    IF cubes = "fails" THEN [r EXCEPT !._map_pane = ErrorDiv("Error loading cubes")]
    ELSE _update_map([r EXCEPT !._footprints = cubes])

\* lines 117-125: loaded is what load_cnet did, a returned table or an error
_auto_load_cnet(r, loaded) ==
    IF loaded.outcome # "returned"
    THEN [r EXCEPT !._cnet_info = ErrorDiv(loaded.outcome)]
    ELSE LET r1 == [r EXCEPT !._cnet_df = loaded.table]
             gdf == cnet_to_geodataframe(loaded.table, NoPaths, NoEnv)
             stats == cnet_summary(loaded.table)
         IN  IF gdf.outcome # "returned"
             THEN [r1 EXCEPT !._cnet_info = ErrorDiv(gdf.outcome)]
             ELSE IF stats.outcome # "returned"
             THEN [r1 EXCEPT !._cnet_gdf = GeoDataFrame(gdf.points),
                             !._cnet_info = ErrorDiv(stats.outcome)]
             ELSE _update_map([r1 EXCEPT !._cnet_gdf = GeoDataFrame(gdf.points),
                                         !._cnet_info = stats])

\* lines 134-139: the attributes when the callback ends, and the error that
\* left it ("none" when it returned)
_on_cnet_loaded(r, cnet_df) ==
    LET r1 == [r EXCEPT !._cnet_df = cnet_df]
        gdf == cnet_to_geodataframe(cnet_df, NoPaths, NoEnv)
        stats == cnet_summary(cnet_df)
    IN  IF gdf.outcome # "returned" THEN [state |-> r1, raised |-> gdf.outcome]
        ELSE IF stats.outcome # "returned"
        THEN [state |-> [r1 EXCEPT !._cnet_gdf = GeoDataFrame(gdf.points)], raised |-> stats.outcome]
        ELSE [state |-> _update_map([r1 EXCEPT !._cnet_gdf = GeoDataFrame(gdf.points),
                                               !._cnet_info = stats]),
              raised |-> "none"]

\* components.py lines 92-105: the Load button of the selector; exists is
\* what path.exists() gave
_on_load(r, exists, loaded) ==
    IF ~exists THEN [r EXCEPT !.status = Div("File not found")]
    ELSE IF loaded.outcome # "returned"
    THEN [r EXCEPT !.status = ErrorDiv(loaded.outcome)]
    ELSE LET cb == _on_cnet_loaded([r EXCEPT !.status = Div("Loaded")], loaded.table)
         IN  IF cb.raised # "none"
             THEN [cb.state EXCEPT !.status = ErrorDiv(cb.raised)]
             ELSE cb.state

\* clock in sn, on strings
StrIn(clock, sn) ==
    \E i \in 0 .. (Len(sn) - Len(clock)) :
        \A j \in 1 .. Len(clock) : sn[i + j] = clock[j]

\* lines 178-181
Matching(sns, clock) == SelectSeq(sns, LAMBDA sn : clock # <<>> /\ StrIn(clock, sn))

\* lines 161-190: new is the value of the dropdown; env is what the call meets
\* outside the program: whether load_cube and read_label succeed and the
\* clock identifier in the label (empty when the label has neither keyword)
_on_image_selected(r, new, env) ==
    IF new = "" THEN r
    ELSE IF ~env.cube_loads THEN [r EXCEPT !._image_pane = ErrorDiv("load_cube")]
    ELSE IF r._cnet_df = None
    THEN [r EXCEPT !._image_pane = [kind |-> "image_plot", cube |-> new]]
    ELSE IF "_build_serial_lookup" \notin ModuleNames
    THEN [r EXCEPT !._image_pane = ErrorDiv("NameError")]
    ELSE IF ~env.label_reads THEN [r EXCEPT !._image_pane = ErrorDiv("read_label")]
    ELSE LET matching == Matching(Unique(r._cnet_df, "serialnumber"), env.clock)
         IN  IF matching # <<>>
             THEN [r EXCEPT !._image_pane =
                     [kind |-> "image_with_cnet", cube |-> new,
                      serial_number |-> matching[1]]]
             ELSE [r EXCEPT !._image_pane = [kind |-> "image_plot", cube |-> new]]

(***************************************************************************)
(* SpecReview: a MosaicReview is constructed, with or without a cube list  *)
(* and a control network; then networks are loaded through the selector    *)
(* and images are selected, in any order.                                  *)
(***************************************************************************)
MaxLoads == 2

MaxSelections == 1

\* what the binary reader returns for the networks of this specification: no
\* measure or one, with or without the adjusted coordinates
ReviewRows ==
    [id : {"p1"}, serialnumber : {Serial1}, measureType : {0, 2},
     adjustedLon : {NaN, 20}, adjustedLat : {30}]

ReviewNetworks ==
    { Table(cs, rs) :
        cs \in { {"id", "serialnumber", "measureType"},
                 {"id", "serialnumber", "measureType", "adjustedLon", "adjustedLat"} },
        rs \in { <<>> } } \cup
    { Table(cs, << Restrict(r, cs) >>) :
        cs \in { {"id", "serialnumber", "measureType"},
                 {"id", "serialnumber", "measureType", "adjustedLon", "adjustedLat"} },
        r \in ReviewRows }

\* what a load_cnet call does: it returns the table built from the file, or
\* raises (no file, or a cache or reader failure)
LoadResults ==
    { [outcome |-> "returned", table |-> BuildTable(n)] : n \in ReviewNetworks }
    \cup { [outcome |-> "FileNotFoundError", table |-> NoTable] }

SelectionEnvs ==
    [cube_loads : BOOLEAN, label_reads : BOOLEAN, clock : {<<>>, <<"1">>, <<"2">>}]

InitReview ==
    /\ review = [pc |-> "new"]
    /\ viewer = [pc |-> "idle"]
    /\ IdleClassify
    /\ IdleLoad
    /\ IdleGeo
    /\ IdleCampt
    /\ IdleSummary
    /\ IdlePairs

\* lines 63-97; a cube list and a control network are given or not
ReviewConstruct ==
    /\ review.pc = "new"
    /\ \E cubes \in {"None", "empty", "loaded", "fails"} :
       \E given \in BOOLEAN :
       \E loaded \in LoadResults :
         LET r1 == IF cubes = "None" THEN NewReview
                   ELSE _auto_load_cubes(NewReview, cubes)
         IN  review' = IF given
                       THEN [_auto_load_cnet(r1, loaded) EXCEPT !.loads = 1]
                       ELSE r1
    /\ UNCHANGED <<viewer, clsVars, loadVars, geoVars, camptVars, sumVars, pairVars>>

\* the Load button of the control-network selector is pressed
SelectorLoad ==
    /\ review.pc = "ready"
    /\ review.loads < MaxLoads
    /\ \E exists \in BOOLEAN :
       \E loaded \in LoadResults :
         review' = [_on_load(review, exists, loaded) EXCEPT !.loads = @ + 1]
    /\ UNCHANGED <<viewer, clsVars, loadVars, geoVars, camptVars, sumVars, pairVars>>

\* an entry of the image dropdown is chosen
ImageSelected ==
    /\ review.pc = "ready"
    /\ review.selections < MaxSelections
    /\ \E new \in {"", "cube1"} :
       \E env \in SelectionEnvs :
         review' = [_on_image_selected(review, new, env) EXCEPT
                       !.selections = @ + 1,
                       !.selection = [new |-> new, env |-> env,
                                      _cnet_df |-> review._cnet_df]]
    /\ UNCHANGED <<viewer, clsVars, loadVars, geoVars, camptVars, sumVars, pairVars>>

NextReview ==
    \/ ReviewConstruct
    \/ SelectorLoad
    \/ ImageSelected

SpecReview == InitReview /\ [][NextReview]_vars

(***************************************************************************)
(* plotting/footprint_mpl.py and cli.py: the footprint viewers.            *)
(***************************************************************************)
\* cnet_overlay.py lines 256-259: the parameters of cnet_to_geodataframe
Parameters == {"cnet_df", "cube_paths"}

\* a call cnet_to_geodataframe(cnet_df, **kwargs): Python binds the keywords
\* to the parameters before the body runs and raises TypeError for a keyword
\* that is no parameter
CallWithKeywords(cnet_df, kwargs, env) ==
    IF ~(DOMAIN kwargs \subseteq Parameters)
    THEN [outcome |-> "TypeError", points |-> <<>>]
    ELSE cnet_to_geodataframe(cnet_df,
                              IF "cube_paths" \in DOMAIN kwargs
                              THEN kwargs.cube_paths ELSE NoPaths,
                              env)

\* footprint_mpl.py lines 113-121, cli.py lines 125-132: the keywords the
\* viewers pass, from the columns of the footprint table (a missing column
\* gives None; the keyword is passed all the same)
ViewerKeywords(columns) ==
    [cube_paths |-> IF "path" \in columns THEN SomePaths ELSE NoPaths,
     clock_lookup |-> IF "clock" \in columns /\ "path" \in columns
                      THEN [c \in {<<"1">>, <<"2">>} |->
                               IF c = <<"1">> THEN "cube1" ELSE "cube2"]
                      ELSE None]

\* footprint_mpl.py lines 125-138: the points drawn for each status
OverlayByStatus(points) ==
    [st \in { points[i].status : i \in DOMAIN points } |->
        SelectSeq(points, LAMBDA pt : pt.status = st)]

\* footprint_mpl.py lines 107-138, cli.py lines 122-136: the control-point
\* overlay of a viewer; an error of the conversion leaves the viewer
ControlPointOverlay(v, env) ==
    LET cnet_gdf == CallWithKeywords(v.cnet_df, ViewerKeywords(v.columns), env)
    IN  IF cnet_gdf.outcome # "returned"
        THEN [v EXCEPT !.pc = "done", !.outcome = cnet_gdf.outcome]
        ELSE [v EXCEPT !.pc = "done", !.outcome = "shown",
                       !.overlay = OverlayByStatus(cnet_gdf.points)]

\* footprint_mpl.py lines 50-138
footprint_window(v, env) ==
    IF v.cnet_df # None THEN ControlPointOverlay(v, env)
    ELSE [v EXCEPT !.pc = "done", !.outcome = "shown"]

\* cli.py lines 99-142: the footprints command, with or without --win
footprints(v, env) ==
    IF v.win THEN footprint_window(v, env)
    ELSE IF v.cnet_df # None THEN ControlPointOverlay(v, env)
    ELSE [v EXCEPT !.pc = "done", !.outcome = "shown"]

(***************************************************************************)
(* SpecFootprints: a footprint viewer is opened on a footprint table, with *)
(* or without a control network.                                           *)
(***************************************************************************)
\* the measurement tables the viewers are given
ViewerNetworks == { BuildTable(n) : n \in ReviewNetworks }

InitFootprints ==
    /\ viewer \in [pc : {"new"}, entry : {"footprint_window", "footprints"},
                    win : BOOLEAN, columns : SUBSET {"path", "clock"},
                    cnet_df : {None} \cup ViewerNetworks,
                    outcome : {"pending"}, overlay : {<<>>}]
    /\ review = [pc |-> "idle"]
    /\ IdleClassify
    /\ IdleLoad
    /\ IdleGeo
    /\ IdleCampt
    /\ IdleSummary
    /\ IdlePairs

FootprintWindow ==
    /\ viewer.pc = "new"
    /\ viewer.entry = "footprint_window"
    /\ \E env \in [labels : GeoLabels, tool : [Serials -> GeoFates]] :
         viewer' = footprint_window(viewer, env)
    /\ UNCHANGED <<review, clsVars, loadVars, geoVars, camptVars, sumVars, pairVars>>

FootprintsCommand ==
    /\ viewer.pc = "new"
    /\ viewer.entry = "footprints"
    /\ \E env \in [labels : GeoLabels, tool : [Serials -> GeoFates]] :
         viewer' = footprints(viewer, env)
    /\ UNCHANGED <<review, clsVars, loadVars, geoVars, camptVars, sumVars, pairVars>>

NextFootprints ==
    \/ FootprintWindow
    \/ FootprintsCommand

SpecFootprints == InitFootprints /\ [][NextFootprints]_vars

(***************************************************************************)
(* Claims about the classifier (SpecClassify).                             *)
(***************************************************************************)
\* |x| > 1e-10 as the specification states it, on a residual that may be nan
ExceedsThreshold(x) == x # NaN /\ (x > Eps \/ x < 0 - Eps)

\* the priority rule of the specification on a measurement with all five fields
PriorityRule(r) ==
    CASE r.pointIgnore \/ r.measureIgnore -> "ignored"
      [] ~(r.pointIgnore \/ r.measureIgnore) /\ r.measureType >= 2 -> "registered"
      [] ~(r.pointIgnore \/ r.measureIgnore) /\ r.measureType < 2
           /\ (ExceedsThreshold(r.residualSample) \/ ExceedsThreshold(r.residualLine))
           -> "registered"
      [] OTHER -> "unregistered"

\* the measurement r with each absent flag set to false and each absent number to 0
Filled(r) ==
    [pointIgnore    |-> IF "pointIgnore" \in DOMAIN r THEN r["pointIgnore"] ELSE FALSE,
     measureIgnore  |-> IF "measureIgnore" \in DOMAIN r THEN r["measureIgnore"] ELSE FALSE,
     measureType    |-> IF "measureType" \in DOMAIN r THEN r["measureType"] ELSE 0,
     residualSample |-> IF "residualSample" \in DOMAIN r THEN r["residualSample"] ELSE 0,
     residualLine   |-> IF "residualLine" \in DOMAIN r THEN r["residualLine"] ELSE 0]

\* C1: on a measurement with all five inputs present the classifier returns
\* exactly the result of the priority rule: ignored when an ignore flag is set,
\* else registered when measureType >= 2, else registered when a residual
\* exceeds 1e-10 in absolute value, else unregistered.
C1_ClassifierFollowsPriorityRule ==
    (status # "pending" /\ DOMAIN row = ClassifierFields)
        => status = PriorityRule(row)

\* C1 witness: a candidate measure with all five fields and no ignore flag was
\* classified as registered on the strength of its line residual alone.
C1_Witness ==
    /\ status = "registered"
    /\ DOMAIN row = ClassifierFields
    /\ ~row["pointIgnore"] /\ ~row["measureIgnore"]
    /\ row["measureType"] = 0
    /\ row["residualSample"] = 0 /\ row["residualLine"] = 0 - 2

\* C2: the classifier is total: whatever fields are present or absent it
\* returns one of the three statuses, and that status is the one of the same
\* measurement with absent flags set to false and absent numbers set to 0.
C2_ClassifierTotalWithDefaults ==
    status # "pending"
        => /\ status \in Statuses
           /\ status = PriorityRule(Filled(row))

\* C2 witness: a measurement without residual fields, of registered type, was
\* classified as registered (the case of test_registered_by_type).
C2_Witness ==
    /\ status = "registered"
    /\ DOMAIN row = {"pointIgnore", "measureIgnore", "measureType"}
    /\ row["measureType"] = 2

(***************************************************************************)
(* Claims about load_cnet (SpecLoad).                                      *)
(***************************************************************************)
Ended == 1 .. Len(log)

\* the call log[i] parsed the file, stored the table and returned it
MissReturned(i) == log[i].outcome = "returned" /\ ~log[i].hit

\* C3: once a load_cnet call that missed the cache has returned, every later
\* call that computes the same (path, mtime) key makes no call to the binary
\* reader and, when the cache answers, returns the table the first call stored.
C3_SameMtimeServedFromCache ==
    \A i \in Ended : MissReturned(i) =>
        /\ \A j \in Ended :
             (j > i /\ log[j].began >= i /\ log[j].mtime = log[i].mtime) =>
                /\ log[j].reads = 0
                /\ log[j].fault = "none" =>
                     /\ log[j].outcome = "returned"
                     /\ log[j].hit
                     /\ log[j].table = log[i].table
        /\ \A p \in Callers :
             (call[p].pc # "idle" /\ call[p].began >= i
                 /\ call[p].mtime = log[i].mtime) => call[p].reads = 0

\* C3 witness: a second load of the unchanged file has returned the table of
\* the first from the cache.
C3_Witness ==
    \E i, j \in Ended :
        /\ i < j /\ MissReturned(i)
        /\ log[j].mtime = log[i].mtime
        /\ log[j].outcome = "returned" /\ log[j].hit
        /\ log[j].table = log[i].table /\ NRows(log[j].table) > 0

\* log[i] and log[j] are two calls that saw the file's modification time, one
\* after the other with no such call between them
ConsecutiveStats(i, j) ==
    /\ i < j
    /\ log[i].mtime # NoMtime /\ log[j].mtime # NoMtime
    /\ \A k \in Ended : (i < k /\ k < j) => log[k].mtime = NoMtime

C5_CacheFailureFallsThrough ==
    \A j \in Ended :
        (log[j].fault # "none"
            /\ log[j].outcome \notin {"FileNotFoundError", "ReaderError"}) =>
                /\ log[j].outcome = "returned"
                /\ log[j].reads = 1

\* C6: load_cnet on a path that does not exist raises the not-found error at
\* once: the cache is neither opened, read nor written and the reader is not
\* invoked on that call.
C6_MissingPathRaisesNotFound ==
    /\ \A j \in Ended :
         ~log[j].existed =>
            /\ log[j].outcome = "FileNotFoundError"
            /\ log[j].opened = 0 /\ log[j].gets = 0 /\ log[j].sets = 0
            /\ log[j].reads = 0
    /\ \A p \in Callers : call[p].pc # "idle" => call[p].existed

\* C6 witness: the file was loaded and cached, then removed, and the next
\* load raised the not-found error.
C6_Witness ==
    \E j \in Ended :
        /\ ~log[j].existed
        /\ log[j].outcome = "FileNotFoundError"
        /\ cache # <<>>

\* the five classifier inputs of a row of the reader's table, under the names
\* load_cnet gives them, absent ones as false and 0
InputsOfRawRow(r) ==
    [pointIgnore    |-> IF "pointIgnore" \in DOMAIN r THEN r["pointIgnore"] ELSE FALSE,
     measureIgnore  |-> IF "measureIgnore" \in DOMAIN r THEN r["measureIgnore"] ELSE FALSE,
     measureType    |-> IF "measureType" \in DOMAIN r THEN r["measureType"] ELSE 0,
     residualSample |-> IF "sampleResidual" \in DOMAIN r THEN r["sampleResidual"] ELSE 0,
     residualLine   |-> IF "lineResidual" \in DOMAIN r THEN r["lineResidual"] ELSE 0]

\* an absent or null residual counted as 0
ZeroIfNull(x) == IF x = NaN THEN 0 ELSE x

\* m is sqrt(a^2 + b^2) to the precision of the model: m >= 0 and
\* (m - 1/2)^2 < a^2 + b^2 < (m + 1/2)^2, or all are 0
IsHypotOf(m, a, b) ==
    /\ m # NaN /\ m >= 0
    /\ 4 * (a * a + b * b) < (2 * m + 1) * (2 * m + 1)
    /\ m > 0 => (2 * m - 1) * (2 * m - 1) < 4 * (a * a + b * b)

\* C7: every row of the table load_cnet builds on a cache miss has one status,
\* a member of {ignored, registered, unregistered}, equal to the classifier's
\* result on the renamed row, and a residual_magnitude >= 0 equal to
\* hypot(residualSample, residualLine) with an absent or null component
\* counted as 0: residuals 3 and 4 give 5, no residual columns give 0.
C7_BuiltRowsHaveStatusAndMagnitude ==
    \A j \in Ended : MissReturned(j) =>
        LET raw == log[j].raw
            t == log[j].table
        IN  /\ NRows(t) = NRows(raw)
            /\ {"status", "residual_magnitude"} \subseteq t.cols
            /\ \A i \in 1 .. NRows(t) :
                 LET in == InputsOfRawRow(raw.rows[i])
                     a == ZeroIfNull(in.residualSample)
                     b == ZeroIfNull(in.residualLine)
                     m == t.rows[i]["residual_magnitude"]
                 IN  /\ t.rows[i]["status"] \in Statuses
                     /\ t.rows[i]["status"] = PriorityRule(in)
                     /\ IsHypotOf(m, a, b)
                     /\ (a = 3 /\ b = 4) => m = 5
                     /\ ({"sampleResidual", "lineResidual"} \cap raw.cols = {}) => m = 0

\* C7 witness: a candidate measure with residuals 3 and 4 was loaded on a
\* miss: its magnitude is 5 and it is registered by its residuals.
C7_Witness ==
    \E j \in Ended :
        /\ MissReturned(j)
        /\ \E i \in 1 .. NRows(log[j].raw) :
             /\ {"sampleResidual", "lineResidual", "measureType"} \subseteq log[j].raw.cols
             /\ log[j].raw.rows[i]["sampleResidual"] = 3
             /\ log[j].raw.rows[i]["lineResidual"] = 4
             /\ log[j].raw.rows[i]["measureType"] = 0
             /\ log[j].table.rows[i]["residual_magnitude"] = 5
             /\ log[j].table.rows[i]["status"] = "registered"

(***************************************************************************)
(* Claims about cnet_to_geodataframe (SpecGeo).                            *)
(***************************************************************************)
\* the four coordinate pairs in the order the specification tries them
CoordinatePairs ==
    << <<"adjustedX", "adjustedY">>, <<"adjustedLon", "adjustedLat">>,
       <<"aprioriX", "aprioriY">>, <<"aprioriLon", "aprioriLat">> >>

\* at least one present column of pair k has a non-zero value in the table
Carries(t, k) ==
    \E c \in Range(CoordinatePairs[k]) :
        c \in t.cols /\ \E i \in 1 .. NRows(t) : t.rows[i][c] # 0

\* both columns of pair k are present and zero on every row
PresentAllZero(t, k) ==
    \A c \in Range(CoordinatePairs[k]) :
        c \in t.cols /\ \A i \in 1 .. NRows(t) : t.rows[i][c] = 0

\* both columns of pair k are present and its first column has a non-zero value
PresentWithValues(t, k) ==
    /\ \A c \in Range(CoordinatePairs[k]) : c \in t.cols
    /\ \E i \in 1 .. NRows(t) : t.rows[i][CoordinatePairs[k][1]] # 0

\* C8 (as claimed): the ground-coordinate columns used are those of the first
\* pair, in the order adjustedX/Y, adjustedLon/Lat, aprioriX/Y, aprioriLon/Lat,
\* that carries a non-zero value: a pair that is present but all zero is
\* passed over in favour of a later pair that carries non-zero values.
C8_AllZeroPairIsPassedOver ==
    geoOut.outcome # "pending" =>
        \A k, l \in DOMAIN CoordinatePairs :
            (/\ k < l
             /\ PresentAllZero(geoIn.cnet_df, k)
             /\ PresentWithValues(geoIn.cnet_df, l)
             /\ \A j \in 1 .. (l - 1) : ~Carries(geoIn.cnet_df, j)) =>
                /\ geoOut.outcome = "returned"
                /\ geoOut.lon_col = CoordinatePairs[l][1]
                /\ geoOut.lat_col = CoordinatePairs[l][2]

\* C9 (as claimed): when no coordinate pair of the table carries a non-zero
\* value and no image paths are supplied, the call raises the invalid-input
\* error naming the available columns and returns no point table, whether the
\* coordinate columns are absent or present and all zero.
C9_NoCoordinatesNoPathsRaises ==
    (/\ geoOut.outcome # "pending"
     /\ ~geoIn.cube_paths.given
     /\ NRows(geoIn.cnet_df) > 0
     /\ \A k \in DOMAIN CoordinatePairs : ~Carries(geoIn.cnet_df, k)) =>
        /\ geoOut.outcome = "ValueError"
        /\ geoOut.columns = geoIn.cnet_df.cols
        /\ geoOut.points = <<>>

\* the statuses of the measurements of a point in the table handed in
StatusesOfPoint(point_id) ==
    { geoIn.cnet_df.rows[i]["status"] :
        i \in { j \in 1 .. NRows(geoIn.cnet_df) :
                  geoIn.cnet_df.rows[j]["pointId"] = point_id } }

\* C10: for every point emitted, the aggregate status is ignored if and only
\* if every measurement of the point is ignored; otherwise it is registered if
\* at least one measurement is registered, and unregistered otherwise.
C10_PointStatusTieBreak ==
    geoOut.outcome = "returned" =>
        \A k \in DOMAIN geoOut.points :
            LET pt == geoOut.points[k]
                S == StatusesOfPoint(pt.pointId)
            IN  /\ S # {}
                /\ pt.status = "ignored" <=> (\A x \in S : x = "ignored")
                /\ pt.status = "registered" <=>
                      ((\E x \in S : x # "ignored") /\ "registered" \in S)
                /\ pt.status = "unregistered" <=>
                      ((\E x \in S : x # "ignored") /\ "registered" \notin S)
                /\ S = {"ignored", "unregistered"} => pt.status = "unregistered"
                /\ S = {"unregistered", "registered"} => pt.status = "registered"

\* C10 witness: a point with an ignored and an unregistered measurement was
\* emitted as unregistered next to a point whose measurements are all ignored.
C10_Witness ==
    /\ geoOut.outcome = "returned"
    /\ \E k, l \in DOMAIN geoOut.points :
         /\ StatusesOfPoint(geoOut.points[k].pointId) = {"ignored", "unregistered"}
         /\ geoOut.points[k].status = "unregistered"
         /\ geoOut.points[k].n_measures = 2
         /\ StatusesOfPoint(geoOut.points[l].pointId) = {"ignored"}
         /\ geoOut.points[l].status = "ignored"

\* the mean of a column over the rows S with a value is a finite number: some
\* row of S has a value and no value of S is infinite
FiniteMean(t, col, S) ==
    /\ \E i \in S : ~IsNaN(t.rows[i][col])
    /\ \A i \in S : t.rows[i][col] \notin {PosInf, NegInf}

\* C11 (as claimed): a point group is dropped if and only if the mean of its
\* chosen longitude or latitude column over the rows with a value is not a
\* finite number (nan or infinite), so every emitted point has a finite
\* longitude and a finite latitude.
C11_DroppedIffMeanNotFinite ==
    geoOut.outcome = "returned" =>
        LET t == geoOut.table
            emitted == { geoOut.points[k].pointId : k \in DOMAIN geoOut.points }
        IN  \A i \in 1 .. NRows(t) :
                LET point_id == t.rows[i]["pointId"]
                    S == { j \in 1 .. NRows(t) : t.rows[j]["pointId"] = point_id }
                IN  point_id \in emitted <=>
                        /\ FiniteMean(t, geoOut.lon_col, S)
                        /\ FiniteMean(t, geoOut.lat_col, S)

\* every measure lacks a value in every longitude column of the table, so that
\* no point can survive the filtering whichever column is chosen
NoPointSurvives(t) ==
    /\ NRows(t) > 0
    /\ \E c \in Range(LonCandidates) : c \in t.cols
    /\ \E c \in Range(LatCandidates) : c \in t.cols
    /\ \A c \in Range(LonCandidates) \cap t.cols :
          \A i \in 1 .. NRows(t) : IsNaN(t.rows[i][c])

\* the table has a longitude and a latitude column to choose
HasCoordinateColumns(t) ==
    /\ \E c \in Range(LonCandidates) : c \in t.cols
    /\ \E c \in Range(LatCandidates) : c \in t.cols

\* C12 (as claimed): whenever the measurement table has no rows or no point
\* survives the filtering, the call raises nothing and returns an empty point
\* table, whether or not image paths are supplied.  (A table without rows,
\* without coordinate columns and without image paths is the case of C9 and is
\* left out here.)
C12_EmptyInputReturnsEmptyTable ==
    (/\ geoOut.outcome # "pending"
     /\ \/ /\ NRows(geoIn.cnet_df) = 0
           /\ geoIn.cube_paths.given \/ HasCoordinateColumns(geoIn.cnet_df)
        \/ NoPointSurvives(geoIn.cnet_df)) =>
        /\ geoOut.outcome = "returned"
        /\ geoOut.points = <<>>

(***************************************************************************)
(* Claims about _lonlat_from_campt (SpecCampt).                            *)
(***************************************************************************)
\* the serial numbers the loop has been through, as positions in campt.sns
Visited == IF campt.pc \in {"loop", "done"} THEN DOMAIN campt.fates ELSE {}

\* the images whose conversion succeeded: campt returned a row per submitted row
Succeeded == { k \in Visited : campt.fates[k] = "ok" }

\* the rows of the k-th serial number
RowsOf(k) ==
    { i \in 1 .. NRows(campt.c.df) :
        campt.c.df.rows[i]["serialnumber"] = campt.sns[k] }

\* row i carries the coordinates campt gives for its sample and line
Populated(i) ==
    LET r == campt.c.df.rows[i]
    IN  /\ r["campt_lon"] = CamptLon(r["sample"], r["line"])
        /\ r["campt_lat"] = CamptLat(r["sample"], r["line"])

Unpopulated(i) ==
    /\ IsNaN(campt.c.df.rows[i]["campt_lon"])
    /\ IsNaN(campt.c.df.rows[i]["campt_lat"])

\* C13 (as claimed): the call raises its conversion error if and only if no
\* image's conversion succeeded; if at least one image converts successfully
\* it returns normally, with coordinates on the rows of every successful image
\* and nan on the rows of every unresolved or failed image.
C13_RaisesIffNoImageSucceeded ==
    campt.pc = "done" =>
        /\ campt.c.raised \in {"none", "RuntimeError"}
        /\ campt.c.raised = "RuntimeError" <=> Succeeded = {}
        /\ Succeeded # {} =>
              /\ campt.c.raised = "none"
              /\ \A k \in DOMAIN campt.sns : \A i \in RowsOf(k) :
                    IF k \in Succeeded THEN Populated(i) ELSE Unpopulated(i)

\* the serial numbers of the table that resolve to a cube, in table order
RECURSIVE ResolvedFrom(_)
ResolvedFrom(k) ==
    IF k > Len(campt.sns) THEN <<>>
    ELSE IF RsplitLast(campt.sns[k]) \in DOMAIN campt.clock_lookup
         THEN <<campt.sns[k]>> \o ResolvedFrom(k + 1)
         ELSE ResolvedFrom(k + 1)

\* C14 (as claimed): whatever step fails for one image, the call still attempts
\* every remaining serial number, and the only error that can leave it is the
\* total-failure error raised after all images were attempted.
C14_FailuresDoNotAbortTheBatch ==
    campt.pc = "done" =>
        /\ campt.c.attempted = ResolvedFrom(1)
        /\ campt.c.raised \in {"none", "RuntimeError"}

\* C15 (as claimed): when the call returns or raises, every coordinate-list
\* file and every tool-output file it created has been deleted.
C15_NoTemporaryFileIsLeft ==
    campt.pc = "done" => campt.c.files = {}

\* C16: for every serial number the loop has been through, if campt returned
\* as many rows as were submitted, the k-th submitted row carries the k-th
\* returned longitude and latitude (those of its own sample and line);
\* otherwise no row of the serial number carries a coordinate; and the
\* successes counted are exactly the images of the first kind.
C16_ResultAppliedAllOrNothingInOrder ==
    campt.pc \in {"loop", "done"} =>
        /\ \A k \in Visited : \A i \in RowsOf(k) :
              IF campt.fates[k] = "ok" THEN Populated(i) ELSE Unpopulated(i)
        /\ campt.c.n_success = Cardinality(Succeeded)

\* C16 witness: the call returned; the first and third measure, of one image,
\* carry their own coordinates in order, and the second measure, of an image
\* for which campt returned a row too few, carries none.
C16_Witness ==
    /\ campt.pc = "done"
    /\ campt.c.raised = "none"
    /\ NRows(campt.c.df) = 3
    /\ campt.sns = <<Serial1, Serial2>>
    /\ campt.fates = <<"ok", "short_output">>
    /\ campt.c.df.rows[1]["serialnumber"] = Serial1
    /\ campt.c.df.rows[3]["serialnumber"] = Serial1
    /\ campt.c.df.rows[1]["campt_lon"] = CamptLon(1, 2)
    /\ campt.c.df.rows[3]["campt_lon"] = CamptLon(3, 6)
    /\ campt.c.df.rows[3]["campt_lat"] = CamptLat(3, 6)
    /\ Unpopulated(2)

\* c occurs in s as a run of consecutive characters
IsSubstring(c, s) ==
    \E i \in 0 .. (Len(s) - Len(c)) : SubSeq(s, i + 1, i + Len(c)) = c

\* c occurs in s as a whole part between separators
IsPart(c, s) ==
    /\ \A i \in DOMAIN c : c[i] # "/"
    /\ \E i \in 0 .. (Len(s) - Len(c)) :
          /\ SubSeq(s, i + 1, i + Len(c)) = c
          /\ i = 0 \/ s[i] = "/"
          /\ i + Len(c) = Len(s) \/ s[i + Len(c) + 1] = "/"

\* C17 (as claimed): a serial number resolves to a source image whenever that
\* image's clock identifier is a substring of the serial number; only serial
\* numbers for which no image's clock identifier is a substring are skipped
\* and left with nan coordinates.  (The first half is stated for a clock
\* identifier that is a whole part of the serial number, the way serial
\* numbers embed it.)
C17_ClockSubstringResolves ==
    \A k \in Visited :
        /\ (\E clock \in DOMAIN campt.clock_lookup : IsPart(clock, campt.sns[k])) =>
              campt.fates[k] # "unresolved"
        /\ campt.fates[k] = "unresolved" =>
              \A i \in RowsOf(k) : Unpopulated(i)
        /\ campt.fates[k] # "unresolved" =>
              \E clock \in DOMAIN campt.clock_lookup : IsSubstring(clock, campt.sns[k])

(***************************************************************************)
(* Claims about cnet_summary (SpecSummary).                                *)
(***************************************************************************)
\* the distinct values of a column of the table handed in
DistinctIn(col) == { sumIn.rows[i][col] : i \in 1 .. NRows(sumIn) }

\* C18 (as claimed): on a table without rows or without columns the call does
\* not raise and returns all six counts equal to 0; on a table with rows that
\* it returns for, n_points and n_images are the numbers of distinct pointId
\* and serialnumber values and n_measures is the number of rows.
C18_SummaryCountsDefaultToZero ==
    sumOut.outcome # "pending" =>
        /\ NRows(sumIn) = 0 =>
              /\ sumOut.outcome = "returned"
              /\ sumOut.n_points = 0 /\ sumOut.n_measures = 0 /\ sumOut.n_images = 0
              /\ sumOut.n_registered = 0 /\ sumOut.n_unregistered = 0
              /\ sumOut.n_ignored = 0
        /\ (NRows(sumIn) > 0 /\ SummaryColumns \subseteq sumIn.cols) =>
              /\ sumOut.outcome = "returned"
              /\ sumOut.n_points = Cardinality(DistinctIn("pointId"))
              /\ sumOut.n_images = Cardinality(DistinctIn("serialnumber"))
              /\ sumOut.n_measures = NRows(sumIn)

(***************************************************************************)
(* Claims about _find_image_pairs (SpecPairs).                             *)
(***************************************************************************)
\* the points of the table handed in that have a measure in both images
SharedPoints(s1, s2) ==
    { pairsIn.rows[i]["pointId"] : i \in
        { i \in 1 .. NRows(pairsIn) :
            /\ \E j \in 1 .. NRows(pairsIn) :
                  /\ pairsIn.rows[j]["pointId"] = pairsIn.rows[i]["pointId"]
                  /\ pairsIn.rows[j]["serialnumber"] = s1
            /\ \E j \in 1 .. NRows(pairsIn) :
                  /\ pairsIn.rows[j]["pointId"] = pairsIn.rows[i]["pointId"]
                  /\ pairsIn.rows[j]["serialnumber"] = s2 } }

\* (a1, a2) < (b1, b2) on pairs of strings
PairLess(a, b) == StrLess(a[1], b[1]) \/ (a[1] = b[1] /\ StrLess(a[2], b[2]))

\* C19 (as claimed): the pairs are returned by descending shared-point count,
\* and pairs with equal counts in the lexicographic order of the pair, for
\* every table and every order of its rows and point identifiers; for
\* P1 = {A, B}, P2 = {A, B}, P3 = {A, C} the result is [(A, B), (A, C)].
C19_PairsSortedByCountThenPair ==
    pairsOut.outcome = "returned" =>
        /\ \A i, j \in DOMAIN pairsOut.pairs :
              i < j =>
                LET a == pairsOut.pairs[i]
                    b == pairsOut.pairs[j]
                    na == Cardinality(SharedPoints(a[1], a[2]))
                    nb == Cardinality(SharedPoints(b[1], b[2]))
                IN  na > nb \/ (na = nb /\ PairLess(a, b))
        /\ pairsIn = ExampleNetwork =>
              pairsOut.pairs = << <<<<"A">>, <<"B">>>>, <<<<"A">>, <<"C">>>> >>

\* C20: every returned pair (s1, s2) has s1 < s2, no pair is returned twice or
\* in both orders, a pair is returned if and only if at least one point has a
\* measure in both images, and its count is the number of distinct points that
\* do, however many measures a point has in one image.
C20_EachPairCountedOncePerPoint ==
    pairsOut.outcome = "returned" =>
        /\ \A k \in DOMAIN pairsOut.pairs :
              StrLess(pairsOut.pairs[k][1], pairsOut.pairs[k][2])
        /\ \A i, j \in DOMAIN pairsOut.pairs :
              i # j =>
                /\ pairsOut.pairs[i] # pairsOut.pairs[j]
                /\ pairsOut.pairs[i] # <<pairsOut.pairs[j][2], pairsOut.pairs[j][1]>>
        /\ \A s1, s2 \in PairSerials :
              (s1 # s2 /\ SharedPoints(s1, s2) # {}) <=>
                  \E k \in DOMAIN pairsOut.pairs :
                      {pairsOut.pairs[k][1], pairsOut.pairs[k][2]} = {s1, s2}
        /\ Len(pairsOut.pair_counts) = Len(pairsOut.pairs)
        /\ \A k \in DOMAIN pairsOut.pair_counts :
              LET e == pairsOut.pair_counts[k]
              IN  /\ e.count = Cardinality(SharedPoints(e.pair[1], e.pair[2]))
                  /\ \E i \in DOMAIN pairsOut.pairs : pairsOut.pairs[i] = e.pair

\* C20 witness: point P1 has two measures in image B, listed before its
\* measure in image A, and point P2 a measure in image C only; the pair (A, B)
\* is the one pair returned, with count 1.
C20_Witness ==
    /\ pairsOut.outcome = "returned"
    /\ NRows(pairsIn) = 4
    /\ pairsIn.rows[1] = [pointId |-> <<"P", "1">>, serialnumber |-> <<"B">>]
    /\ pairsIn.rows[2] = [pointId |-> <<"P", "1">>, serialnumber |-> <<"B">>]
    /\ pairsIn.rows[3] = [pointId |-> <<"P", "1">>, serialnumber |-> <<"A">>]
    /\ pairsIn.rows[4] = [pointId |-> <<"P", "2">>, serialnumber |-> <<"C">>]
    /\ pairsOut.pairs = << <<<<"A">>, <<"B">>>> >>
    /\ pairsOut.pair_counts = << [pair |-> <<<<"A">>, <<"B">>>>, count |-> 1] >>

(***************************************************************************)
(* C21.  Concurrent loaders of one unchanged file.                         *)
(***************************************************************************)
\* calls i and j of the log were in flight at the same time: the later one to
\* end began before the earlier one ended
Overlapped(i, j) == i < j /\ log[j].began < i

\* C21: when two or more load_cnet calls on the same unchanged file run with
\* their cache-read, parse and cache-write steps interleaved in any order,
\* every call that returns returns the same table, the one built from the
\* file, and the cache entry under (path, mtime), once written, is that
\* table whoever wrote it last.
C21_ConcurrentLoadersAgree ==
    /\ \A i \in Ended :
         log[i].outcome = "returned" => log[i].table = BuildTable(file.content)
    /\ \A i, j \in Ended :
         log[i].outcome = "returned" /\ log[j].outcome = "returned"
            => log[i].table = log[j].table
    /\ \A k \in DOMAIN cache :
         k = CacheKey(Path, file.mtime) /\ cache[k] = BuildTable(file.content)

\* two calls of different callers overlapped, both missed the cache, both
\* parsed the file and both wrote the entry, and a third call was served
\* from the entry the last writer left
C21_Witness ==
    \E i, j, k \in Ended :
        /\ Overlapped(i, j)
        /\ log[i].caller # log[j].caller
        /\ log[i].outcome = "returned" /\ ~log[i].hit /\ log[i].sets = 1
        /\ log[j].outcome = "returned" /\ ~log[j].hit /\ log[j].sets = 1
        /\ j < k /\ log[k].outcome = "returned" /\ log[k].hit
        /\ NRows(log[k].table) > 0

(***************************************************************************)
(* C22.  The derived views leave the source table alone.                   *)
(***************************************************************************)
\* C22: whatever cnet_to_geodataframe (with or without the conversion through
\* campt), cnet_summary or _find_image_pairs does, returning or raising, the
\* measurement table the caller passed has afterwards the same columns (no
\* campt_lon or campt_lat added), the same rows and the same values as before.
C22_ViewsLeaveSourceUnchanged ==
    [][geoIn' = geoIn /\ sumIn' = sumIn /\ pairsIn' = pairsIn]_vars

\* the conversion through campt ran on a table with rows, filled its columns
\* and the points were returned, and the caller's table has neither column
C22_Witness ==
    /\ geoOut.outcome = "returned"
    /\ geoOut.lon_col = "campt_lon"
    /\ Len(geoOut.points) > 0
    /\ "campt_lon" \in geoOut.table.cols
    /\ NRows(geoIn.cnet_df) > 0
    /\ "campt_lon" \notin geoIn.cnet_df.cols

(***************************************************************************)
(* C23.  The point table of MosaicReview follows its measurement table.    *)
(***************************************************************************)
\* the aggregation of table t, as MosaicReview asks for it
AggregationOf(t) == cnet_to_geodataframe(t, NoPaths, NoEnv)

\* C23: after any sequence of control-network loads in MosaicReview, at
\* construction or through the selector, succeeding or failing, the stored
\* point table _cnet_gdf is the aggregation of the stored measurement table
\* _cnet_df, never that of an earlier table.  (Stated for the runs in which a
\* point table with points is stored; with none stored yet, a first load
\* whose aggregation raises leaves _cnet_df set and _cnet_gdf None.)
C23_PointTableFollowsMeasurementTable ==
    (review.pc = "ready" /\ review._cnet_gdf # None
        /\ Len(review._cnet_gdf.points) > 0)
        => /\ review._cnet_df # None
           /\ AggregationOf(review._cnet_df).outcome = "returned"
           /\ review._cnet_gdf.points = AggregationOf(review._cnet_df).points

(***************************************************************************)
(* C26.  Selecting an image in MosaicReview.                               *)
(***************************************************************************)
\* the positions, in order of first appearance, of the serial numbers of
\* table t that contain the clock identifier
Containing(t, clock) ==
    { i \in 1 .. Len(Unique(t, "serialnumber")) :
        clock # <<>> /\ IsSubstring(clock, Unique(t, "serialnumber")[i]) }

\* C26: in MosaicReview, selecting an image while a control network is
\* loaded shows the image overlaid with the measurements of the first serial
\* number that contains the image's clock identifier, shows the plain image
\* when no serial number contains it, and shows the error pane only when
\* loading the cube or its label fails.  (Stated for a network with measures
\* whose points were stored and a label that carries a clock identifier.)
C26_SelectionShowsImageOrOverlay ==
    (/\ review.pc = "ready"
     /\ review.selection # None
     /\ review.selection.new # ""
     /\ review.selection._cnet_df # None
     /\ NRows(review.selection._cnet_df) > 0
     /\ review._cnet_gdf # None
     /\ review.selection.env.clock # <<>>)
    => LET sel == review.selection
           sns == Unique(sel._cnet_df, "serialnumber")
           containing == Containing(sel._cnet_df, sel.env.clock)
           first == CHOOSE i \in containing : \A j \in containing : i <= j
       IN  /\ review._image_pane.kind = "error"
                => ~sel.env.cube_loads \/ ~sel.env.label_reads
           /\ (sel.env.cube_loads /\ sel.env.label_reads)
                => IF containing # {}
                   THEN review._image_pane =
                          [kind |-> "image_with_cnet", cube |-> sel.new,
                           serial_number |-> sns[first]]
                   ELSE review._image_pane = [kind |-> "image_plot", cube |-> sel.new]

(***************************************************************************)
(* C24.  When and for what the conversion tool is invoked.                 *)
(***************************************************************************)
\* no coordinate column of t holds a non-zero value
NoGroundCoordinate(t) ==
    \A c \in CoordinateColumns \cap t.cols : \A i \in 1 .. NRows(t) : t.rows[i][c] = 0

\* the rows of t at which a serial number appears for the first time
FirstAppearances(t) ==
    { i \in 1 .. NRows(t) :
        \A j \in 1 .. (i - 1) : t.rows[j]["serialnumber"] # t.rows[i]["serialnumber"] }

\* the distinct serial numbers of t in the order in which they first appear
SerialsInOrder(t) ==
    [k \in 1 .. Cardinality(FirstAppearances(t)) |->
        LET i == CHOOSE x \in FirstAppearances(t) :
                    Cardinality({ y \in FirstAppearances(t) : y < x }) = k - 1
        IN  t.rows[i]["serialnumber"]]

\* the serial number resolves to one of the images: the clock identifier of
\* the image is part of it
ResolvesToImage(sn, paths, labels) ==
    \E k \in 1 .. Len(paths) :
        labels[paths[k]] # NoClock /\ IsSubstring(labels[paths[k]], sn)

\* the serial numbers of the call that resolve to an image, in the order in
\* which they first appear
ResolvedInOrder ==
    SelectSeq(SerialsInOrder(geoIn.cnet_df),
              LAMBDA sn : ResolvesToImage(sn, geoIn.cube_paths.paths,
                                          geoOut.env.labels))

\* C24: the conversion tool is invoked only when the network carries no
\* non-zero ground coordinate and image paths were supplied, and then once
\* for each distinct serial number that resolves to an image, one invocation
\* at a time in the order in which the serial numbers first appear; it is
\* never invoked for an unresolved serial number.  (The invocations are
\* required for the serial numbers whose coordinate file can be written: the
\* tool cannot be run for an image whose temporary file cannot be created.)
C24_ToolInvokedOncePerResolvedSerial ==
    geoOut.outcome # "pending"
        => /\ geoOut.invoked # <<>>
                => NoGroundCoordinate(geoIn.cnet_df) /\ geoIn.cube_paths.given
           /\ Range(geoOut.invoked) \subseteq Range(ResolvedInOrder)
           /\ geoOut.invoked =
                SelectSeq(ResolvedInOrder, LAMBDA sn : sn \in Range(geoOut.invoked))
           /\ (NoGroundCoordinate(geoIn.cnet_df) /\ geoIn.cube_paths.given)
                => \A k \in 1 .. Len(ResolvedInOrder) :
                      geoOut.env.tool[ResolvedInOrder[k]] = "ok"
                         => ResolvedInOrder[k] \in Range(geoOut.invoked)

(***************************************************************************)
(* C25.  The fields of an emitted point.                                   *)
(***************************************************************************)
\* the input rows of a point
RowsOfPoint(point_id) ==
    { i \in 1 .. NRows(geoIn.cnet_df) : geoIn.cnet_df.rows[i]["pointId"] = point_id }

\* the sum of the residual magnitudes of the first k input rows that belong
\* to the point
RECURSIVE ResidualSum(_, _)
ResidualSum(point_id, k) ==
    IF k = 0 THEN 0
    ELSE ResidualSum(point_id, k - 1)
            + (IF k \in RowsOfPoint(point_id)
               THEN geoIn.cnet_df.rows[k]["residual_magnitude"] ELSE 0)

\* C25: the point table returned by cnet_to_geodataframe has at most one row
\* per pointId of the input and no pointId that the input lacks; for each
\* emitted point n_measures is the number of input rows with that pointId,
\* rows without coordinates included, residual_magnitude is the mean over
\* those rows, and pointType is the value of the first of them in input
\* order.
C25_PointFieldsComeFromItsRows ==
    geoOut.outcome = "returned"
        => /\ \A i, j \in DOMAIN geoOut.points :
                 geoOut.points[i].pointId = geoOut.points[j].pointId => i = j
           /\ \A i \in DOMAIN geoOut.points :
                 LET pt == geoOut.points[i]
                     rows == RowsOfPoint(pt.pointId)
                 IN  /\ rows # {}
                     /\ pt.n_measures = Cardinality(rows)
                     /\ pt.residual_magnitude =
                           [sum |-> ResidualSum(pt.pointId, NRows(geoIn.cnet_df)),
                            n |-> Cardinality(rows)]
                     /\ \E first \in rows :
                           /\ \A r \in rows : first <= r
                           /\ pt.pointType = geoIn.cnet_df.rows[first]["pointType"]

\* a point was emitted from two measures, the first of them without a
\* longitude, that differ in residual magnitude and in point type
C25_Witness ==
    /\ geoOut.outcome = "returned"
    /\ geoOut.lon_col = "adjustedLon"
    /\ \E i \in DOMAIN geoOut.points :
         LET rows == RowsOfPoint(geoOut.points[i].pointId)
             t == geoIn.cnet_df
         IN  /\ Cardinality(rows) = 2
             /\ geoOut.points[i].n_measures = 2
             /\ \E a, b \in rows :
                   /\ a < b
                   /\ IsNaN(t.rows[a]["adjustedLon"])
                   /\ t.rows[a]["residual_magnitude"] # t.rows[b]["residual_magnitude"]
                   /\ t.rows[a]["pointType"] = "Fixed"
                   /\ t.rows[b]["pointType"] = "Free"
                   /\ geoOut.points[i].pointType = "Fixed"

(***************************************************************************)
(* C27.  The conversion call of the footprint viewers.                     *)
(***************************************************************************)
\* C27: when a control network is given to footprint_window or to the
\* footprints command, the network is converted to a point table by
\* cnet_to_geodataframe with the footprints' cube paths and its points are
\* overlaid by status; the call the viewers make is accepted by
\* cnet_to_geodataframe and does not fail on its arguments.  (Stated for a
\* network with measures and a footprint table that has the path and clock
\* columns.)
C27_ViewerConversionCallAccepted ==
    (/\ viewer.pc = "done"
     /\ viewer.cnet_df # None
     /\ NRows(viewer.cnet_df) > 0
     /\ viewer.columns = {"path", "clock"})
        => /\ viewer.outcome # "TypeError"
           /\ viewer.outcome = "shown"
                => \A st \in DOMAIN viewer.overlay :
                      \A i \in DOMAIN viewer.overlay[st] :
                         viewer.overlay[st][i].status = st

(***************************************************************************)
(* C28.  The counts of cnet_summary on a table load_cnet returned.         *)
(***************************************************************************)
\* C28: for every measurement table returned by load_cnet, cnet_summary
\* returns and its counts partition the rows: n_registered + n_unregistered
\* + n_ignored = n_measures, and n_points <= n_measures and n_images <=
\* n_measures.
C28_SummaryCountsPartitionLoadedRows ==
    sumOut.outcome # "idle"
        => /\ sumOut.outcome = "returned"
           /\ sumOut.n_registered + sumOut.n_unregistered + sumOut.n_ignored
                = sumOut.n_measures
           /\ sumOut.n_measures = NRows(sumIn)
           /\ sumOut.n_points <= sumOut.n_measures
           /\ sumOut.n_images <= sumOut.n_measures

\* a table of two measures, one registered and one not, was served from the
\* cache and summarised
C28_Witness ==
    /\ sumOut.outcome = "returned"
    /\ log[Len(log)].hit
    /\ sumOut.n_measures = 2
    /\ sumOut.n_registered = 1
    /\ sumOut.n_unregistered + sumOut.n_ignored = 1
    /\ sumOut.n_points = 1

(***************************************************************************)
(* C29.  The longitude and the latitude column are one pair.               *)
(***************************************************************************)
\* the coordinate pairs: a longitude column with its latitude column
ColumnPairs ==
    { <<LonCandidates[k], LatCandidates[k]>> : k \in DOMAIN LonCandidates }
    \cup { <<"campt_lon", "campt_lat">> }

\* C29: in cnet_to_geodataframe the column used for longitude and the column
\* used for latitude always belong to the same coordinate pair (adjustedX
\* with adjustedY, adjustedLon with adjustedLat, aprioriX with aprioriY,
\* aprioriLon with aprioriLat, campt_lon with campt_lat), for every subset of
\* coordinate columns present in the input table.  (Stated for tables with a
\* non-zero value in a longitude column.)
C29_LongitudeAndLatitudeFromOnePair ==
    (geoOut.outcome = "returned" /\ _has_ground_coords(geoIn.cnet_df))
        => <<geoOut.lon_col, geoOut.lat_col>> \in ColumnPairs

(***************************************************************************)
(* C30.  A cache entry holds the table of the contents its key names.      *)
(***************************************************************************)
\* the table built from what the file held when it carried modification
\* time mtime
TableAt(mtime) == BuildTable(file.history[mtime + 1])

\* C30: every cache entry written by load_cnet under the key (path, mtime)
\* holds the table derived from the file contents that had that modification
\* time, also when the file is rewritten between the moment load_cnet reads
\* the modification time and the moment the reader parses the file.
C30_EntryMatchesContentsOfItsMtime ==
    \A k \in DOMAIN cache : cache[k] = TableAt(k[3])

====
